---- MODULE Spec2Model ----
(***************************************************************************)
(* A model of the orbit-chat-frontend client: the conversation state store *)
(* (ChatProvider), the realtime transport manager (MQTTClient) and the     *)
(* parts of the session manager (AuthProvider) that drive them.            *)
(*                                                                         *)
(* Each asynchronous function of the client is a sequence of actions, one  *)
(* per stretch of code between two awaits; a backend reply, a broker event *)
(* and a timer are actions of the environment.  The subsystems are checked *)
(* under specifications of their own (SpecUpload, ...), which share Init   *)
(* and the variables and leave the other subsystems' variables unchanged.  *)
(***************************************************************************)
EXTENDS Integers, Sequences, FiniteSets, Bags, TLC

VARIABLES
    \* ---- sendMessageWithFiles (one call at a time: the composer's isSending guard)
    upPc,          \* "idle" | "post" | "try" | "sleep" | "done" | "failed"
    upConv,        \* conversationId of the call
    upFiles,       \* the files argument (file names)
    upIdx,         \* index of the file being processed
    upMsgId,       \* newMessage.id of the current file
    retries,       \* the loop's retries counter
    upAttempts,    \* upload attempts made for the current file
    upWaited,      \* milliseconds slept between the attempts of the current file
    upError,       \* the error the call rejected with
    lastMessage,   \* lastMessage of the call
    postLog,       \* the chat-service POSTs issued (sendMessage), in order
    \* ---- the session (AuthProvider state, TokenManager)
    user,          \* the authenticated user (isAuthenticated is user # NoUser)
    tokenUser,     \* TokenManager.getUser(): the user stored with the token
    authPc,        \* "mount" until initializeAuth has run, then "ready"
    loginPc,       \* login(): "idle" | "auth" | "status"
    mqttConnected, \* AuthProvider's mqttConnected state
    \* ---- the transport (MQTTClient singleton)
    isConnected,   \* this.isConnected
    client,        \* this.client: the connection it refers to, or NoClient
    connStatus,    \* by connection: "none" | "connecting" | "open" | "closed"
    connectCalls,  \* connect() calls in flight
    connectCount,  \* connect() calls made
    subscriptions, \* this.subscriptions: the topics subscribed
    messageHandlers, \* this.messageHandlers: by topic, the handler registered
    listening,     \* the window listeners of the store's MQTT effect are registered
    connectionCallbacks, \* this.connectionCallbacks: the subscribe calls deferred
    \* ---- the store (ChatProvider state)
    conversations, \* the conversation list
    messages,      \* messages by conversation, newest first
    presenceData,  \* presence record by user
    isLoading,
    error,
    storage,       \* localStorage: the conversations snapshot by user
    listOwner,     \* the user whose session put the conversation list in the store
    snapshotOwner, \* by user: the user whose list the snapshot under its key is
    effectTimer,   \* the load-on-auth effect's 100 ms timer: the conversations.length
                   \* of the render that armed it, or NoTimer
    refreshTimers, \* pending setTimeout(() => loadConversations(true), 2000):
                   \* the conversations.length each callback closed over
    loadCalls,     \* loadConversations calls in flight
    presenceCalls, \* refreshPresenceData calls in flight: the ids each asked for
    sendCalls,     \* sendMessage calls in flight
    activeConversation,
    participants,  \* the conversations whose participants are loaded
    createCalls,   \* createConversation calls in flight
    selCalls,      \* selectConversation calls in flight
    selectCount,   \* by conversation: selectConversation calls made
    handlerActive, \* the activeConversation seen by the handleNewMessage that the
                   \* current selectConversation callback closed over
    bgTimers,      \* pending background re-fetch timers of selectConversation (500 ms)
    reloadTimers,  \* pending reload timers of handleNewMessage (1000 ms)
    msgCalls,      \* GETs of a conversation's messages in flight from those timers
    typingUsers,   \* by conversation: the users with a typing entry
    typingTimers,  \* pending expiry timers of handleTypingIndicator
    now,           \* the time, in seconds
    \* ---- the page
    organization,  \* localStorage orbit_organization: the stored organization's id
    location,      \* window.location: the page shown
    adminCalls,    \* the admin console's fetch calls in flight
    adminError,    \* the admin console's error state
    \* ---- history
    requestLog,    \* the backend requests the session and the admin console issued
    beforeReload,  \* the stored user and its conversations snapshot when the page
                   \* was reloaded
    deferred,      \* the subscribe calls deferred since the last connect event
    connectLog,    \* the last connect event: what was subscribed, what it issued
    lastTyping,    \* by conversation and user: the last typing event and its time
    lastApplied,   \* by user: the payload of the last presence update that named it
    sendLog,       \* the sendMessage calls made, in order
    fetches,       \* the GETs of a conversation's messages issued, by cause
    delivered,     \* by conversation: the message ids delivered to handleNewMessage
    \* ---- the chat backend
    srvMsgs,       \* the server's messages by conversation, newest first
    nextMsgId,     \* the next message identifier the server assigns
    srvConvs       \* the user's conversations at the server, newest first

sessionVars == <<user, tokenUser, authPc, loginPc, mqttConnected>>
mqttVars == <<isConnected, client, connStatus, connectCalls, connectCount,
              subscriptions, messageHandlers, listening>>

uploadVars == <<upPc, upConv, upFiles, upIdx, upMsgId, retries, upAttempts,
                upWaited, upError, lastMessage>>

\* conversations and what React's effects derive from it
convVars == <<conversations, storage, effectTimer, listOwner, snapshotOwner>>
loadVars == <<isLoading, error, refreshTimers, loadCalls>>
presenceVars == <<presenceData, presenceCalls, lastApplied>>
sendVars == <<sendCalls, sendLog>>
serverVars == <<srvMsgs, nextMsgId, srvConvs>>

selVars == <<activeConversation, participants, createCalls, selCalls, selectCount,
             fetches>>
msgVars == <<bgTimers, reloadTimers, msgCalls, delivered>>
typingVars == <<typingUsers, typingTimers, now, lastTyping>>
subVars == <<connectionCallbacks, deferred, connectLog>>
pageVars == <<organization, location, adminCalls, adminError, requestLog, beforeReload>>

vars == <<sessionVars, mqttVars, uploadVars, postLog, convVars, messages, handlerActive,
          loadVars, presenceVars, sendVars, selVars, msgVars, typingVars, subVars, pageVars,
          serverVars>>

\* ---------------------------------------------------------------- bounds
MaxFiles == 2
MaxPosts == 4
MaxAttachPosts == 3
MaxInFlight == 2
MaxConnects == 2
MaxSelects == 2
MaxSends == 2
MaxMsgs == 2
MaxTime == 7
MaxTimers == 3

\* ---------------------------------------------------------- the universe
ConvIds == {"c1", "c2"}
FileNames == {"a.png", "b.pdf"}
Contents == {"hello", "bye"}
Users == {"u1", "u2", "u3"}
Me == "u1"
\* The accounts that sign in on this page, and the organization of each.
Accounts == {"u1", "u2"}
OrgOf(u) == "org1"
NoUser == "null"
NoOrg == "null"
NoConv == "null"
NoClient == 0
NoHandler == [fn |-> "none"]
NoTimer == -1
NoMsg == [id |-> 0]
NoError == [type |-> "none"]
NoPresence == [status |-> "none"]
PresenceStatuses == {"online", "offline"}

\* No connect event yet.
NoSnapshot == [user |-> NoUser, conversations |-> <<>>]
NoConnect ==
    [reconnect |-> FALSE, before |-> {}, callbacks |-> {}, earlier |-> {},
     issued |-> {}, served |-> {}]

\* The error state of the store: null, or the message shown in the banner.
NullError == "null"
ChatUnavailable ==
    "Chat service is not available. Please ensure your backend services are running."

\* The members of each conversation at the chat service.
ConvParticipants(c) == IF c = "c1" THEN {"u1", "u2"} ELSE {"u1", "u3"}

\* Messages of the errors the upload steps reject with.  The first two are
\* the media service's foreign-key violation as the backend words it.
ErrorMessages ==
    { "violates foreign key constraint",
      "attachments_message_id_fkey",
      "Network error: Unable to reach server",
      "Failed to upload to storage" }

\* uploadError.message.includes('attachments_message_id_fkey') ||
\* uploadError.message.includes('foreign key constraint')
IsForeignKeyError(msg) ==
    \/ msg = "attachments_message_id_fkey"
    \/ msg = "violates foreign key constraint"

maxRetries == 10
retryDelay == 500

\* setTimeout(..., 5000) of handleTypingIndicator, in seconds
typingExpiry == 5

FileSeqs == UNION { [1..n -> FileNames] : n \in 1..MaxFiles }

\* A conversation as getConversationsWithDetails returns it, and as the
\* chat service returns it where the details are missing (a created
\* conversation, or one whose details request failed).
ConvDetailed(c, latest) ==
    [id |-> c, latest_message |-> latest, participants |-> ConvParticipants(c)]
ConvRaw(c) == [id |-> c, latest_message |-> NoMsg, participants |-> {}]

\* The connections connect() can open: one per call.
ConnIds == 1..MaxConnects

\* chat/<conversation>/messages, chat/<conversation>/typing,
\* presence/<user>/status and the pattern presence/+/status
Topics ==
    [kind : {"messages", "typing"}, conv : ConvIds]
        \cup [kind : {"presence"}, user : Users]
        \cup {[kind |-> "allPresence"]}

\* ------------------------------------------------------------------ Init
\* The state after the providers have mounted: the session is not restored
\* yet (initializeAuth runs from a 100 ms timer), and the store's
\* clear-storage effect, which runs while isAuthenticated is false, has
\* removed every orbit_chat_ key from localStorage.
Init ==
    /\ upPc = "idle"
    /\ upConv = NoConv
    /\ upFiles = <<>>
    /\ upIdx = 0
    /\ upMsgId = 0
    /\ retries = 0
    /\ upAttempts = 0
    /\ upWaited = 0
    /\ upError = NoError
    /\ lastMessage = NoMsg
    /\ postLog = <<>>
    /\ user = NoUser
    /\ tokenUser \in {NoUser, Me}
    /\ authPc = "mount"
    /\ loginPc = "idle"
    /\ mqttConnected = FALSE
    /\ isConnected = FALSE
    /\ client = NoClient
    /\ connStatus = [k \in ConnIds |-> "none"]
    /\ connectCalls = {}
    /\ connectCount = 0
    /\ subscriptions = {}
    /\ messageHandlers = [t \in Topics |-> NoHandler]
    /\ listening = FALSE
    /\ connectionCallbacks = {}
    /\ deferred = {}
    /\ connectLog = NoConnect
    /\ organization = IF tokenUser = NoUser THEN NoOrg ELSE OrgOf(tokenUser)
    /\ location = "/"
    /\ adminCalls = {}
    /\ adminError = NullError
    /\ requestLog = {}
    /\ beforeReload = NoSnapshot
    /\ activeConversation = NoConv
    /\ participants = {}
    /\ createCalls = {}
    /\ selCalls = {}
    /\ selectCount = [c \in ConvIds |-> 0]
    /\ fetches = {}
    /\ handlerActive = NoConv
    /\ bgTimers = EmptyBag
    /\ reloadTimers = EmptyBag
    /\ msgCalls = EmptyBag
    /\ delivered = [c \in ConvIds |-> {}]
    /\ typingUsers = [c \in ConvIds |-> {}]
    /\ typingTimers = EmptyBag
    /\ now = 0
    /\ lastTyping = [c \in ConvIds |->
                        [u \in Users |-> [at |-> -1, is_typing |-> FALSE]]]
    /\ conversations = <<>>
    /\ messages = [c \in ConvIds |-> <<>>]
    /\ presenceData = [u \in Users |-> NoPresence]
    /\ isLoading = FALSE
    /\ error = NullError
    /\ storage = [u \in Accounts |-> <<>>]
    /\ listOwner = NoUser
    /\ snapshotOwner = [u \in Accounts |-> NoUser]
    /\ effectTimer = NoTimer
    /\ refreshTimers = EmptyBag
    /\ loadCalls = EmptyBag
    /\ presenceCalls = EmptyBag
    /\ sendCalls = {}
    /\ lastApplied = [u \in Users |-> NoPresence]
    /\ sendLog = <<>>
    /\ srvMsgs = [c \in ConvIds |-> <<>>]
    /\ nextMsgId = 1
    /\ srvConvs = <<"c1">>

\* ------------------------------------------------- helpers on the store
\* prev.map(conv => conv.id === conversationId
\*                     ? { ...conv, latest_message: m } : conv)
SetLatestMessage_All(convs, c, m) ==
    [i \in 1..Len(convs) |-> [convs[i] EXCEPT !.latest_message = m]]
SetLatestMessage(convs, c, m) ==
    [i \in 1..Len(convs) |->
        IF convs[i].id = c THEN [convs[i] EXCEPT !.latest_message = m]
        ELSE convs[i]]

\* prev[conversationId]?.map(msg => msg.id === id ? updated : msg) || []
PatchMessage(list, id, updated) ==
    [i \in 1..Len(list) |-> IF list[i].id = id THEN updated ELSE list[i]]

\* The chat service stores the posted message and returns it.
ServerMessage(id, sender, status) ==
    [id |-> id, sender |-> sender, status |-> status]

\* messageData of a POST: content_type, content, dedupe_key
\* (`msg-${Date.now()}-${Math.random()}`: a fresh token per call).
MessageData(c, contentType, content, log) ==
    [conv |-> c, content_type |-> contentType, content |-> content,
     dedupe_key |-> <<"msg", Len(log) + 1>>]

\* setMessages(next): the render that follows creates the selectConversation
\* callback again (deps: messages, participants), which closes over that
\* render's handleNewMessage and so over its activeConversation.
SetMessages(next) ==
    /\ messages' = next
    /\ handlerActive' = activeConversation

\* setConversations(list) and the effects that run on the new list: the
\* persist effect saves a non-empty list under the user's key, and the
\* load-on-auth effect (deps: conversations.length) clears its 100 ms timer
\* and arms a new one when the length changed.
\* owner: the user whose session the list is of.
SetOwnedConversations(list, owner) ==
    /\ conversations' = list
    /\ listOwner' = owner
    /\ storage' = IF user # NoUser /\ Len(list) > 0
                  THEN [storage EXCEPT ![user] = list]
                  ELSE storage
    /\ snapshotOwner' = IF user # NoUser /\ Len(list) > 0
                        THEN [snapshotOwner EXCEPT ![user] = owner]
                        ELSE snapshotOwner
    /\ effectTimer' = IF user # NoUser /\ Len(list) # Len(conversations)
                      THEN Len(list)
                      ELSE effectTimer

\* The user of a list the chat service answered a request with: the user
\* the request was made for.
Loader(list, call) == IF Len(list) = 0 THEN NoUser ELSE call.by

\* setConversations(prev => ...): an update of the list the store holds,
\* which stays the list of the session that loaded it.
SetConversations(list) ==
    SetOwnedConversations(list, IF Len(list) = 0 THEN NoUser
                                ELSE IF Len(conversations) = 0 THEN user
                                ELSE listOwner)

\* allParticipantIds: the user ids named by the participants of a list
ParticipantIds(list) == UNION { list[i].participants : i \in 1..Len(list) }

\* refreshPresenceData() up to its await: the bulk presence request for the
\* participants of the conversations and the user is in flight.
RefreshPresenceCall(u, list) ==
    LET idsToRefresh == ParticipantIds(list) \cup (IF u # NoUser THEN {u} ELSE {})
    IN  presenceCalls' = IF idsToRefresh # {}
                         THEN presenceCalls (+) SetToBag({idsToRefresh})
                         ELSE presenceCalls

\* --------------------------------------------------------- the API clients
\* API_CONFIG: the port of each service's base URL
API_CONFIG == [auth |-> 8080, chat |-> 8003, presence |-> 8002, media |-> 8004]

\* config.baseURL?.includes('8080')
KeycloakPort == 8080

\* The paths requested: the auth service's login, register and MQTT
\* credentials endpoints, the identity provider's token and userinfo
\* endpoints, the presence service's status endpoint, and the auth
\* service's user endpoint of the admin console.
RealmPaths == {"/realms/token", "/realms/userinfo"}

\* The request interceptor: the headers it sets from what localStorage holds
\* (token and user are stored and removed together).
RequestHeaders(service, path, token, org) ==
    LET isKeycloakEndpoint == path \in RealmPaths \/ API_CONFIG[service] = KeycloakPort
    IN  (IF token # NoUser THEN {"Authorization"} ELSE {})
        \cup (IF ~isKeycloakEndpoint /\ token # NoUser THEN {"X-User-ID"} ELSE {})
        \cup (IF ~isKeycloakEndpoint /\ org # NoOrg THEN {"X-Organization-ID"} ELSE {})

\* A request made through an API client by one of the session's functions,
\* with the storage it is made under.
Request(service, path, by, token, org) ==
    [via |-> "axios", service |-> service, path |-> path, by |-> by,
     headers |-> RequestHeaders(service, path, token, org)]

\* The response interceptor on an error response: a 401 removes the token,
\* the user and the organization and sets window.location.href to /login.
ResponseError(status) ==
    IF status = 401
    THEN /\ tokenUser' = NoUser
         /\ organization' = NoOrg
         /\ location' = "/login"
    ELSE UNCHANGED <<tokenUser, organization, location>>

\* ------------------------------------------------------------ MQTTClient
\* connect() up to its first await, called from initializeMqtt.  When the
\* client is connected the call resolves at once and initializeMqtt goes on
\* (setMqttConnected(true)); otherwise getMqttCredentials is awaited, which
\* requests the credentials from the auth service when a user is stored.
ConnectGuard == isConnected

ConnectCall(by, token, org) ==
    /\ connectCount' = connectCount + 1
    /\ IF ConnectGuard
       THEN /\ mqttConnected' = TRUE
            /\ UNCHANGED <<connectCalls, requestLog>>
       ELSE /\ connectCalls' = connectCalls \cup
                   {[id |-> connectCount + 1, pc |-> "credentials", conn |-> NoClient,
                     by |-> by]}
            /\ requestLog' = IF token # NoUser
                             THEN requestLog \cup
                                      {Request("auth", "/api/v1/auth/mqtt-credentials",
                                               by, token, org)}
                             ELSE requestLog
            /\ UNCHANGED mqttConnected

\* The variables the transport's own steps never write.
notMqttCore == <<pageVars, typingVars, user, tokenUser, authPc, loginPc, uploadVars, postLog,
                 convVars, messages, handlerActive, loadVars, presenceVars, sendVars,
                 selVars, msgVars, serverVars>>
notMqtt == <<subVars, notMqttCore>>

\* getMqttCredentials resolved: with a stored user, mqtt.connect opens a new
\* connection and this.client refers to it; without one the call throws and
\* initializeMqtt sets mqttConnected to false.
CredentialsOk(call) ==
    /\ call \in connectCalls
    /\ call.pc = "credentials"
    /\ IF tokenUser # NoUser
       THEN /\ client' = call.id
            /\ connStatus' = [connStatus EXCEPT ![call.id] = "connecting"]
            /\ connectCalls' = (connectCalls \ {call}) \cup
                   {[call EXCEPT !.pc = "connecting", !.conn = call.id]}
            /\ UNCHANGED mqttConnected
       ELSE /\ connectCalls' = connectCalls \ {call}
            /\ mqttConnected' = FALSE
            /\ UNCHANGED <<client, connStatus>>
    /\ UNCHANGED <<isConnected, connectCount, subscriptions, messageHandlers, listening,
                   notMqtt>>

\* The connect() calls whose promise belongs to connection k.
CallsOf(k) == { call \in connectCalls : call.conn = k }

\* subscribe(topic, messageHandler) with the client not connected:
\* this.onConnect(() => this.subscribe(topic, messageHandler)).  The callbacks
\* are never removed; running one twice has the effect of running it once,
\* so they are kept as a set.
Defer_Dropped(callbacks, intent) == callbacks
Defer(callbacks, intent) == callbacks \cup {intent}

\* The subscribe calls a connect event makes besides the user's presence
\* topic: those of the connection callbacks.
CallbackIntents_All(callbacks, subs, handlers) ==
    callbacks \cup {[topic |-> t, handler |-> handlers[t]] : t \in subs}
CallbackIntents(callbacks, subs, handlers) == callbacks

\* this.subscriptions.set(topic, true) and
\* this.messageHandlers.set(topic, messageHandler) for the calls acknowledged
AckSubscriptions(subs, intents) == subs \cup {i.topic : i \in intents}
AckHandlers(handlers, intents) ==
    [t \in Topics |->
        IF \E i \in intents : i.topic = t
        THEN (CHOOSE i \in intents : i.topic = t).handler
        ELSE handlers[t]]

\* client.on('connect'): the broker accepted connection k (the first time, or
\* after mqtt.js reconnected it).  The user's presence topic and then the
\* deferred subscribe calls are issued on this.client, and the call's promise
\* resolves: initializeMqtt sets mqttConnected.  No caller awaits these
\* subscribe calls, and the broker's acknowledgement is taken with them when
\* this.client is open; a client that is still connecting issues them again
\* at its own connect event.
OnConnect(k) ==
    LET own == IF client # NoClient /\ tokenUser # NoUser
               THEN {[topic |-> [kind |-> "presence", user |-> tokenUser],
                      handler |-> [fn |-> "defaultPresenceHandler"]]}
               ELSE {}
        intents == own \cup
                       CallbackIntents(connectionCallbacks, subscriptions, messageHandlers)
        acked == client # NoClient /\ connStatus'[client] = "open"
    IN  /\ connStatus[k] \in {"connecting", "closed"}
        /\ connStatus' = [connStatus EXCEPT ![k] = "open"]
        /\ isConnected' = TRUE
        /\ IF acked
           THEN /\ subscriptions' = AckSubscriptions(subscriptions, intents)
                /\ messageHandlers' = AckHandlers(messageHandlers, intents)
                /\ deferred' = {}
           ELSE UNCHANGED <<subscriptions, messageHandlers, deferred>>
        /\ connectLog' = [reconnect |-> connStatus[k] = "closed",
                          before |-> subscriptions,
                          callbacks |-> {i.topic : i \in connectionCallbacks},
                          earlier |-> {i.topic : i \in connectionCallbacks \ deferred},
                          issued |-> {i.topic : i \in intents},
                          served |-> IF acked THEN deferred ELSE {}]
        /\ connectCalls' = connectCalls \ CallsOf(k)
        /\ mqttConnected' = IF CallsOf(k) # {} THEN TRUE ELSE mqttConnected
        /\ UNCHANGED <<client, connectCount, listening, connectionCallbacks,
                       notMqttCore>>

\* client.on('error'): the flag is cleared and the call's promise rejects
\* (initializeMqtt sets mqttConnected to false); mqtt.js keeps the connection
\* and goes on trying.
OnError(k) ==
    /\ connStatus[k] \in {"connecting", "open"}
    /\ isConnected' = FALSE
    /\ connectCalls' = connectCalls \ CallsOf(k)
    /\ mqttConnected' = IF CallsOf(k) # {} THEN FALSE ELSE mqttConnected
    /\ UNCHANGED <<client, connStatus, connectCount, subscriptions, messageHandlers,
                   listening, notMqtt>>

\* client.on('close'): connection k is closed (mqtt.js reconnects it after
\* reconnectPeriod).
OnClose(k) ==
    /\ connStatus[k] = "open"
    /\ connStatus' = [connStatus EXCEPT ![k] = "closed"]
    /\ isConnected' = FALSE
    /\ UNCHANGED <<client, connectCalls, connectCount, mqttConnected, subscriptions,
                   messageHandlers, listening, notMqtt>>

\* The store's MQTT effect, run again on a render in which the user or a
\* handler changed: with the client connected and a user, the pattern
\* presence/+/status is subscribed with handlePresenceUpdate and the window
\* listeners are registered; otherwise the effect returns early (the cleanup
\* of the previous run has removed the listeners).
MqttEffect(u) ==
    IF isConnected /\ u # NoUser
    THEN /\ listening' = TRUE
         /\ subscriptions' = subscriptions \cup {[kind |-> "allPresence"]}
         /\ messageHandlers' = [messageHandlers EXCEPT
                ![[kind |-> "allPresence"]] = [fn |-> "handlePresenceUpdate"]]
    ELSE /\ listening' = FALSE
         /\ UNCHANGED <<subscriptions, messageHandlers>>

\* ----------------------------------------------------------- AuthProvider
\* setUser(u) and the store's effects on the render that follows: the
\* cache-load effect restores the user's snapshot when it is non-empty, the
\* persist effect saves a non-empty list, the load-on-auth effect arms its
\* 100 ms timer, and the MQTT effect registers its window listeners when the
\* client is connected.
UserBecomes(u) ==
    LET cachedConversations == storage[u]
        list == IF Len(cachedConversations) > 0 THEN cachedConversations
                ELSE conversations
        owner == IF Len(cachedConversations) > 0 THEN snapshotOwner[u] ELSE listOwner
    IN  /\ user' = u
        /\ conversations' = list
        /\ listOwner' = owner
        /\ storage' = IF Len(list) > 0 THEN [storage EXCEPT ![u] = list] ELSE storage
        /\ snapshotOwner' = IF Len(list) > 0
                            THEN [snapshotOwner EXCEPT ![u] = owner]
                            ELSE snapshotOwner
        /\ effectTimer' = IF user # u THEN Len(list) ELSE effectTimer
        /\ MqttEffect(u)

\* The variables the session's steps never write.
notSessionCore == <<typingVars, subVars, isConnected, client, connStatus, uploadVars,
                    postLog, messages, handlerActive, loadVars, lastApplied,
                    presenceData, sendVars, selVars, msgVars, serverVars>>
notSession == <<adminCalls, adminError, beforeReload, notSessionCore>>

\* initializeAuth, run 100 ms after the mount: a stored session is restored
\* and the transport is initialised.  initializeMqtt catches what connect()
\* throws, so the call returns normally whatever becomes of the connection.
initializeAuth ==
    /\ authPc = "mount"
    /\ authPc' = "ready"
    /\ IF tokenUser # NoUser
       THEN /\ UserBecomes(tokenUser)
            /\ ConnectCall("restore", tokenUser, organization)
       ELSE UNCHANGED <<user, convVars, listening, subscriptions, messageHandlers,
                        connectCalls, connectCount, mqttConnected, requestLog>>
    /\ UNCHANGED <<tokenUser, loginPc, presenceCalls, organization, location,
                   notSession>>

\* login(email, password) up to its first await: authHelpers.login posts the
\* credentials to the auth service's login endpoint.
login ==
    /\ authPc = "ready"
    /\ loginPc = "idle"
    /\ connectCount < MaxConnects
    /\ loginPc' = "auth"
    /\ requestLog' = requestLog \cup
           {Request("auth", "/api/v1/auth/login", "login", tokenUser, organization)}
    /\ UNCHANGED <<user, tokenUser, authPc, mqttConnected, connectCalls, connectCount,
                   listening, subscriptions, messageHandlers, convVars, presenceCalls,
                   organization, location, notSession>>

\* What login does with the user authHelpers.login resolved with (it stored
\* the token and the user): setUser, setIsAuthenticated, the organization is
\* stored, and the user's status is being set to online.
LoggedIn(u) ==
    /\ loginPc' = "status"
    /\ tokenUser' = u
    /\ organization' = OrgOf(u)
    /\ UserBecomes(u)
    /\ requestLog' = requestLog \cup
           {Request("presence", "/api/v1/presence/status", "login", u, OrgOf(u))}
    /\ UNCHANGED <<authPc, mqttConnected, connectCalls, connectCount, presenceCalls,
                   location, notSession>>

\* The direct login resolved.
LoginOk(u) ==
    /\ loginPc = "auth"
    /\ LoggedIn(u)

\* The direct login failed: the password grant is requested from the
\* identity provider.
LoginDirectFail(status) ==
    /\ loginPc = "auth"
    /\ loginPc' = "grant"
    /\ ResponseError(status)
    /\ requestLog' = requestLog \cup
           {Request("auth", "/realms/token", "login", tokenUser', organization')}
    /\ UNCHANGED <<user, authPc, mqttConnected, connectCalls, connectCount,
                   listening, subscriptions, messageHandlers, convVars, presenceCalls,
                   notSession>>

\* The password grant resolved: userinfo is requested with the access token
\* as its Authorization header.
LoginGrantOk ==
    /\ loginPc = "grant"
    /\ loginPc' = "userinfo"
    /\ requestLog' = requestLog \cup
           {[Request("auth", "/realms/userinfo", "login", tokenUser, organization)
                EXCEPT !.headers = @ \cup {"Authorization"}]}
    /\ UNCHANGED <<user, tokenUser, authPc, mqttConnected, connectCalls, connectCount,
                   listening, subscriptions, messageHandlers, convVars, presenceCalls,
                   organization, location, notSession>>

\* The password grant or the userinfo request failed: authHelpers.login
\* throws 'Login failed' and login rethrows.
LoginFail(status) ==
    /\ loginPc \in {"grant", "userinfo"}
    /\ loginPc' = "idle"
    /\ ResponseError(status)
    /\ UNCHANGED <<user, authPc, mqttConnected, connectCalls, connectCount,
                   listening, subscriptions, messageHandlers, convVars, presenceCalls,
                   requestLog, notSession>>

\* The identifiers bound where authHelpers.login builds the user of the
\* fallback: its parameters, its locals and the module's bindings.
LoginScope == {"email", "password", "error", "keycloakRealm", "keycloakClientId",
               "response", "access_token", "userInfoResponse", "userInfo",
               "axios", "API_CONFIG", "API_BASE_URLS", "TokenManager",
               "createApiClient", "authApi", "chatApi", "presenceApi", "mediaApi",
               "authHelpers"}

\* userinfo resolved: the user is built from it with
\* organization_id: organizationId || 'default-org'.  Reading an identifier
\* that is not bound throws a ReferenceError, which the fallback's catch
\* turns into 'Login failed' before the token and the user are stored.
LoginUserInfoOk(u) ==
    /\ loginPc = "userinfo"
    /\ IF "organizationId" \in LoginScope
       THEN LoggedIn(u)
       ELSE /\ loginPc' = "idle"
            /\ UNCHANGED <<user, tokenUser, authPc, mqttConnected, connectCalls,
                           connectCount, listening, subscriptions, messageHandlers,
                           convVars, presenceCalls, organization, location,
                           requestLog, notSession>>

\* setUserStatus settled (ok: it resolved; otherwise no response came): when
\* it resolved, the presence-updated event makes the store call
\* refreshPresenceData(); then initializeMqtt is called.
LoginStatusSettled(ok) ==
    /\ loginPc = "status"
    /\ loginPc' = "idle"
    /\ IF ok /\ BagCardinality(presenceCalls) < MaxInFlight
       THEN RefreshPresenceCall(user, conversations)
       ELSE UNCHANGED presenceCalls
    /\ ConnectCall("login", tokenUser, organization)
    /\ UNCHANGED <<user, tokenUser, authPc, listening, subscriptions, messageHandlers,
                   convVars, organization, location, notSession>>

\* register(...) up to its first await: authHelpers.register posts to the
\* auth service's register endpoint.
register ==
    /\ authPc = "ready"
    /\ loginPc = "idle"
    /\ connectCount < MaxConnects
    /\ loginPc' = "register"
    /\ requestLog' = requestLog \cup
           {Request("auth", "/api/v1/auth/register", "register", tokenUser,
                    organization)}
    /\ UNCHANGED <<user, tokenUser, authPc, mqttConnected, connectCalls, connectCount,
                   listening, subscriptions, messageHandlers, convVars, presenceCalls,
                   organization, location, notSession>>

\* authHelpers.register resolved (it stored the token and the user): setUser,
\* setIsAuthenticated, setOrganization on the provider's state only, and
\* initializeMqtt is awaited.
RegisterOk(u) ==
    /\ loginPc = "register"
    /\ loginPc' = "mqtt"
    /\ tokenUser' = u
    /\ UserBecomes(u)
    /\ ConnectCall("register", u, organization)
    /\ UNCHANGED <<authPc, presenceCalls, organization, location, notSession>>

\* authHelpers.register rejected: register rethrows.
RegisterFail(status) ==
    /\ loginPc = "register"
    /\ loginPc' = "idle"
    /\ ResponseError(status)
    /\ UNCHANGED <<user, authPc, mqttConnected, connectCalls, connectCount,
                   listening, subscriptions, messageHandlers, convVars, presenceCalls,
                   requestLog, notSession>>

\* initializeMqtt returned to register: the user's status is being set to
\* online.
RegisterMqttSettled ==
    /\ loginPc = "mqtt"
    /\ \A call \in connectCalls : call.by # "register"
    /\ loginPc' = "registered"
    /\ requestLog' = requestLog \cup
           {Request("presence", "/api/v1/presence/status", "register", tokenUser, organization)}
    /\ UNCHANGED <<user, tokenUser, authPc, mqttConnected, connectCalls, connectCount,
                   listening, subscriptions, messageHandlers, convVars, presenceCalls,
                   organization, location, notSession>>

\* setUserStatus settled: register returns.
RegisterStatusSettled ==
    /\ loginPc = "registered"
    /\ loginPc' = "idle"
    /\ UNCHANGED <<user, tokenUser, authPc, mqttConnected, connectCalls, connectCount,
                   listening, subscriptions, messageHandlers, convVars, presenceCalls,
                   pageVars, notSessionCore>>

\* mqttClient.disconnect(): the connection is ended, and the client and the
\* subscriptions are dropped; the handlers and the connection callbacks stay.
Disconnect ==
    IF client # NoClient
    THEN /\ connStatus' = [connStatus EXCEPT ![client] = "ended"]
         /\ client' = NoClient
         /\ isConnected' = FALSE
         /\ subscriptions' = {}
    ELSE UNCHANGED <<connStatus, client, isConnected, subscriptions>>

\* The end of logout and the store's effects on the render that follows:
\* the token, the user and the organization are removed, the provider's state
\* is reset, the clear-storage effect removes every orbit_chat_ key, and the
\* cleanups of the load-on-auth and MQTT effects run.  The store's own state
\* (conversations, messages, participants) is not written.
SignedOut ==
    /\ tokenUser' = NoUser
    /\ organization' = NoOrg
    /\ user' = NoUser
    /\ mqttConnected' = FALSE
    /\ storage' = [u \in Accounts |-> <<>>]
    /\ snapshotOwner' = [u \in Accounts |-> NoUser]
    /\ effectTimer' = NoTimer
    /\ listening' = FALSE
    /\ UNCHANGED <<conversations, listOwner, loginPc, connectCalls, connectCount,
                   messageHandlers, presenceCalls, location, requestLog, adminCalls,
                   adminError, beforeReload, typingVars, subVars, uploadVars, postLog, messages,
                   handlerActive, loadVars, lastApplied, presenceData, sendVars,
                   selVars, msgVars, serverVars>>

\* logout() up to its await.  With mqttConnected the offline presence is
\* published first: updatePresence returns at once without a stored user,
\* throws when the client is not connected (the catch skips disconnect), and
\* otherwise awaits the broker's acknowledgement.
logout ==
    /\ authPc = "ready"
    /\ loginPc = "idle"
    /\ user # NoUser
    /\ IF mqttConnected /\ tokenUser # NoUser /\ isConnected
       THEN /\ authPc' = "leaving"
            /\ UNCHANGED <<user, tokenUser, loginPc, mqttConnected, mqttVars, subVars,
                           pageVars, convVars, presenceCalls, typingVars, uploadVars,
                           postLog, messages, handlerActive, loadVars, lastApplied,
                           presenceData, sendVars, selVars, msgVars, serverVars>>
       ELSE /\ UNCHANGED authPc
            /\ IF mqttConnected /\ tokenUser = NoUser
               THEN Disconnect
               ELSE UNCHANGED <<connStatus, client, isConnected, subscriptions>>
            /\ SignedOut

\* The publish of the offline presence settled: when it resolved the
\* heartbeat is stopped and the client disconnected; then logout ends.
LogoutPublished(ok) ==
    /\ authPc = "leaving"
    /\ authPc' = "ready"
    /\ IF ok
       THEN Disconnect
       ELSE UNCHANGED <<connStatus, client, isConnected, subscriptions>>
    /\ SignedOut

\* The page is reloaded and the providers mount again: what the page held
\* in memory (the providers' state, the MQTT client, the timers and the calls
\* in flight) starts from its initial values, localStorage keeps the token,
\* the user and the organization, and the store's clear-storage effect runs
\* on the mount, where isAuthenticated is false, and removes every
\* orbit_chat_ key.
PageReload ==
    /\ authPc = "ready"
    /\ loginPc = "idle"
    /\ beforeReload = NoSnapshot
    /\ beforeReload' = [user |-> tokenUser,
                        conversations |-> IF tokenUser # NoUser THEN storage[tokenUser]
                                          ELSE <<>>]
    /\ user' = NoUser
    /\ authPc' = "mount"
    /\ mqttConnected' = FALSE
    /\ isConnected' = FALSE
    /\ client' = NoClient
    /\ connStatus' = [k \in ConnIds |-> "none"]
    /\ connectCalls' = {}
    /\ connectCount' = 0
    /\ subscriptions' = {}
    /\ messageHandlers' = [t \in Topics |-> NoHandler]
    /\ listening' = FALSE
    /\ connectionCallbacks' = {}
    /\ deferred' = {}
    /\ conversations' = <<>>
    /\ listOwner' = NoUser
    /\ storage' = [u \in Accounts |-> <<>>]
    /\ snapshotOwner' = [u \in Accounts |-> NoUser]
    /\ effectTimer' = NoTimer
    /\ messages' = [c \in ConvIds |-> <<>>]
    /\ handlerActive' = NoConv
    /\ presenceData' = [u \in Users |-> NoPresence]
    /\ presenceCalls' = EmptyBag
    /\ isLoading' = FALSE
    /\ error' = NullError
    /\ refreshTimers' = EmptyBag
    /\ loadCalls' = EmptyBag
    /\ sendCalls' = {}
    /\ activeConversation' = NoConv
    /\ participants' = {}
    /\ createCalls' = {}
    /\ selCalls' = {}
    /\ bgTimers' = EmptyBag
    /\ reloadTimers' = EmptyBag
    /\ msgCalls' = EmptyBag
    /\ typingUsers' = [c \in ConvIds |-> {}]
    /\ typingTimers' = EmptyBag
    /\ adminCalls' = {}
    /\ adminError' = NullError
    /\ upPc' = "idle"
    /\ upConv' = NoConv
    /\ upFiles' = <<>>
    /\ upIdx' = 0
    /\ upMsgId' = 0
    /\ retries' = 0
    /\ upAttempts' = 0
    /\ upWaited' = 0
    /\ upError' = NoError
    /\ lastMessage' = NoMsg
    /\ UNCHANGED <<tokenUser, loginPc, organization, location, requestLog, connectLog,
                   now, lastTyping, lastApplied, sendLog, postLog, selectCount, fetches,
                   delivered, serverVars>>

\* The error responses a request is answered with.
Unauthorized == 401
ErrorStatuses == {Unauthorized, 500}

NextLogin ==
    \/ login
    \/ LoginOk(Me)
    \/ \E status \in ErrorStatuses : LoginDirectFail(status)
    \/ LoginGrantOk
    \/ \E status \in ErrorStatuses : LoginFail(status)
    \/ LoginUserInfoOk(Me)
    \/ \E ok \in BOOLEAN : LoginStatusSettled(ok)

NextSession ==
    \/ initializeAuth
    \/ NextLogin

NextTransport ==
    \/ \E call \in connectCalls : CredentialsOk(call)
    \/ \E k \in ConnIds : OnConnect(k)
    \/ \E k \in ConnIds : OnError(k)
    \/ \E k \in ConnIds : OnClose(k)

NextMqtt == NextSession \/ NextTransport

SpecMqtt == Init /\ [][NextMqtt]_vars

\* -------------------------------------------------------- the admin console
\* handleUpdateUser (PUT) and handleDeleteUser (DELETE) up to their await:
\* fetch is called on the auth service's user endpoint with the stored token
\* as its Authorization header.  No API client is involved.
AdminRequest(method) ==
    /\ authPc = "ready"
    /\ user # NoUser
    /\ method \notin adminCalls
    /\ adminCalls' = adminCalls \cup {method}
    /\ requestLog' = requestLog \cup
           {[via |-> "fetch", service |-> "auth", path |-> "/api/v1/auth/users",
             by |-> method, headers |-> {"Authorization"}]}
    /\ UNCHANGED <<sessionVars, mqttVars, connectionCallbacks, deferred, connectLog,
                   convVars, presenceCalls, organization, location, adminError, beforeReload,
                   typingVars, uploadVars, postLog, messages, handlerActive, loadVars,
                   lastApplied, presenceData, sendVars, selVars, msgVars, serverVars>>

\* The fetch resolved with a response of the given status: when it is not ok
\* the handler throws and its catch sets the error; otherwise the users list
\* is updated and the modal closed.
AdminReply(method, status) ==
    /\ method \in adminCalls
    /\ adminCalls' = adminCalls \ {method}
    /\ adminError' = IF status \in ErrorStatuses
                     THEN IF method = "PUT" THEN "Failed to update user"
                          ELSE "Failed to delete user"
                     ELSE adminError
    /\ UNCHANGED <<sessionVars, mqttVars, connectionCallbacks, deferred, connectLog,
                   convVars, presenceCalls, organization, location, requestLog, beforeReload,
                   typingVars, uploadVars, postLog, messages, handlerActive, loadVars,
                   lastApplied, presenceData, sendVars, selVars, msgVars, serverVars>>

NextAdmin ==
    \/ \E method \in {"PUT", "DELETE"} : AdminRequest(method)
    \/ \E method \in {"PUT", "DELETE"}, status \in ErrorStatuses \cup {200} :
           AdminReply(method, status)

NextRegister ==
    \/ register
    \/ RegisterOk(Me)
    \/ \E status \in ErrorStatuses : RegisterFail(status)
    \/ RegisterMqttSettled
    \/ RegisterStatusSettled

\* The session with registration and the transport.
NextSignIn == NextSession \/ NextRegister \/ NextTransport

SpecSignIn == Init /\ [][NextSignIn]_vars

\* The session with the admin console.
NextConsole == NextSession \/ NextAdmin

SpecConsole == Init /\ [][NextConsole]_vars

\* The connections that are open at the broker.
OpenConnections == { k \in ConnIds : connStatus[k] = "open" }

\* C10: connect() is idempotent: whatever the interleaving of the connect()
\* calls of a session, at most one broker connection is open at any time.
C10_OneConnection == Cardinality(OpenConnections) <= 1

\* ---------------------------------------------------- loadConversations
\* The variables the steps of loadConversations never write.
notLoad == <<pageVars, typingVars, subVars, sessionVars, mqttVars, uploadVars, postLog, messages, handlerActive,
             presenceCalls, sendVars, selVars, msgVars, serverVars>>

\* loadConversations(forceRefresh) up to its first await.  closureLen is the
\* conversations.length of the render whose callback is called.
LoadConversationsCall(forceRefresh, closureLen) ==
    /\ isLoading' = IF forceRefresh \/ closureLen = 0 THEN TRUE ELSE isLoading
    /\ error' = NullError
    /\ loadCalls' = loadCalls (+)
           SetToBag({[closureLen |-> closureLen, stage |-> "chat", ids |-> {},
                      by |-> user]})

\* The 100 ms timer of the load-on-auth effect fires: with a non-empty list
\* it schedules the background refresh, with an empty one it loads.
EffectTimerFire ==
    /\ effectTimer # NoTimer
    /\ BagCardinality(loadCalls) + BagCardinality(refreshTimers) < MaxInFlight
    /\ effectTimer' = NoTimer
    /\ IF effectTimer > 0
       THEN /\ refreshTimers' = refreshTimers (+) SetToBag({effectTimer})
            /\ UNCHANGED <<isLoading, error, loadCalls>>
       ELSE /\ LoadConversationsCall(FALSE, 0)
            /\ UNCHANGED refreshTimers
    /\ UNCHANGED <<conversations, storage, listOwner, snapshotOwner, presenceData,
                   lastApplied, notLoad>>

\* setTimeout(() => loadConversations(true), 2000) fires.
RefreshTimerFire(closureLen) ==
    /\ BagIn(closureLen, refreshTimers)
    /\ refreshTimers' = refreshTimers (-) SetToBag({closureLen})
    /\ LoadConversationsCall(TRUE, closureLen)
    /\ UNCHANGED <<convVars, presenceData, lastApplied, notLoad>>

\* The newest message of a conversation at the server (messages[0] || null).
LatestAtServer(c) == IF srvMsgs[c] = <<>> THEN NoMsg ELSE Head(srvMsgs[c])

\* What getConversationsWithDetails resolves with: the user's conversations,
\* each with its latest message and participants, or as the list endpoint
\* returned it when one of its detail requests failed.
ConversationsWithDetails(failed) ==
    [i \in 1..Len(srvConvs) |->
        IF srvConvs[i] \in failed THEN ConvRaw(srvConvs[i])
        ELSE ConvDetailed(srvConvs[i], LatestAtServer(srvConvs[i]))]

\* A presence record, and a bulk response as a map of records.
PresenceRecord(u, status) == [user_id |-> u, status |-> status]
BulkResponses(ids) == [ids -> PresenceStatuses]

\* getConversationsWithDetails resolved: the list is replaced; the bulk
\* presence request for the participants follows, or the call ends.
LoadChatOk(call, failed) ==
    /\ BagIn(call, loadCalls)
    /\ call.stage = "chat"
    /\ LET conversationsData == ConversationsWithDetails(failed)
           allParticipantIds == ParticipantIds(conversationsData)
       IN  /\ SetOwnedConversations(conversationsData, Loader(conversationsData, call))
           /\ IF allParticipantIds # {}
              THEN /\ loadCalls' = (loadCalls (-) SetToBag({call})) (+)
                          SetToBag({[call EXCEPT !.stage = "presence",
                                                 !.ids = allParticipantIds]})
                   /\ UNCHANGED isLoading
              ELSE /\ loadCalls' = loadCalls (-) SetToBag({call})
                   /\ isLoading' = FALSE
    /\ UNCHANGED <<error, refreshTimers, presenceData, lastApplied, notLoad>>

\* getConversationsWithDetails rejected (chat service unavailable): the list
\* is cleared and the error set when the callback's conversations.length is 0.
LoadChatFail(call) ==
    /\ BagIn(call, loadCalls)
    /\ call.stage = "chat"
    /\ IF call.closureLen = 0
       THEN /\ SetConversations(<<>>)
            /\ error' = ChatUnavailable
       ELSE UNCHANGED <<convVars, error>>
    /\ isLoading' = FALSE
    /\ loadCalls' = loadCalls (-) SetToBag({call})
    /\ UNCHANGED <<refreshTimers, presenceData, lastApplied, notLoad>>

\* getMultipleUserPresence resolved (with the service's answer, or with its
\* all-offline fallback): setPresenceData(presenceResponse).
LoadPresenceReply(call, presenceResponse) ==
    /\ BagIn(call, loadCalls)
    /\ call.stage = "presence"
    /\ presenceData' = [u \in Users |->
           IF u \in call.ids THEN PresenceRecord(u, presenceResponse[u])
           ELSE NoPresence]
    /\ lastApplied' = [u \in Users |->
           IF u \in call.ids THEN PresenceRecord(u, presenceResponse[u])
           ELSE lastApplied[u]]
    /\ isLoading' = FALSE
    /\ loadCalls' = loadCalls (-) SetToBag({call})
    /\ UNCHANGED <<convVars, error, refreshTimers, notLoad>>

NextLoad ==
    \/ EffectTimerFire
    \/ \E closureLen \in BagToSet(refreshTimers) : RefreshTimerFire(closureLen)
    \/ \E call \in BagToSet(loadCalls), failed \in SUBSET ConvIds :
           LoadChatOk(call, failed)
    \/ \E call \in BagToSet(loadCalls) : LoadChatFail(call)
    \/ \E call \in BagToSet(loadCalls) :
           \E presenceResponse \in BulkResponses(call.ids) :
               LoadPresenceReply(call, presenceResponse)

\* -------------------------------------------------------------- presence
\* The variables the presence steps never write.
notPresence == <<pageVars, typingVars, subVars, sessionVars, mqttVars, uploadVars, postLog, convVars, messages,
                 handlerActive, loadVars, sendVars, selVars, msgVars, serverVars>>

\* MQTTClient.handleMessage routes a message on presence/<u>/status to the
\* store's handlePresenceUpdate: through the handler of the pattern
\* presence/+/status, or through the default handler's mqtt-presence event
\* and the store's listener.
PresenceRouted(u) ==
    LET exact == messageHandlers[[kind |-> "presence", user |-> u]]
    IN  IF exact # NoHandler
        THEN exact.fn = "defaultPresenceHandler" /\ listening
        ELSE messageHandlers[[kind |-> "allPresence"]] # NoHandler \/ listening

\* The broker delivers a status message of user u, and the store handles it:
\* setPresenceData(prev => ({ ...prev, [user_id]: presenceData }))
handlePresenceUpdate(u, status) ==
    /\ isConnected
    /\ \/ [kind |-> "presence", user |-> u] \in subscriptions
       \/ [kind |-> "allPresence"] \in subscriptions
    /\ PresenceRouted(u)
    /\ presenceData' = [presenceData EXCEPT ![u] = PresenceRecord(u, status)]
    /\ lastApplied' = [lastApplied EXCEPT ![u] = PresenceRecord(u, status)]
    /\ UNCHANGED <<presenceCalls, notPresence>>

\* refreshPresenceData(), called by the presence effect's timers
refreshPresenceData ==
    /\ user # NoUser
    /\ BagCardinality(presenceCalls) < MaxInFlight
    /\ RefreshPresenceCall(user, conversations)
    /\ UNCHANGED <<presenceData, lastApplied, notPresence>>

\* setPresenceData(prev => ({ ...prev, ...presenceResponse }))
MergePresence(ids, presenceResponse) ==
    /\ presenceData' = [u \in Users |->
           IF u \in ids THEN PresenceRecord(u, presenceResponse[u])
           ELSE presenceData[u]]
    /\ lastApplied' = [u \in Users |->
           IF u \in ids THEN PresenceRecord(u, presenceResponse[u])
           ELSE lastApplied[u]]

\* The bulk request of refreshPresenceData resolved.
RefreshPresenceReply(ids, presenceResponse) ==
    /\ BagIn(ids, presenceCalls)
    /\ presenceCalls' = presenceCalls (-) SetToBag({ids})
    /\ MergePresence(ids, presenceResponse)
    /\ UNCHANGED notPresence

NextPresence ==
    \/ \E u \in Users, status \in PresenceStatuses : handlePresenceUpdate(u, status)
    \/ refreshPresenceData
    \/ \E ids \in BagToSet(presenceCalls) :
           \E presenceResponse \in BulkResponses(ids) :
               RefreshPresenceReply(ids, presenceResponse)

\* ------------------------------------------------------------ sendMessage
\* The variables the steps of sendMessage never write.
notSend == <<pageVars, typingVars, subVars, sessionVars, mqttVars, uploadVars, messages, handlerActive, loadVars,
             presenceVars, selVars, msgVars, srvConvs>>

\* sendMessage(conversationId, content) up to its await: the POST is issued.
sendMessage(c, content) ==
    /\ user # NoUser
    /\ Len(postLog) < MaxPosts
    /\ Len(sendLog) < MaxSends
    /\ postLog' = Append(postLog, MessageData(c, "text/plain", content, postLog))
    /\ sendLog' = Append(sendLog, [conv |-> c, content |-> content])
    /\ sendCalls' = sendCalls \cup {[n |-> Len(sendLog) + 1, conv |-> c]}
    /\ UNCHANGED <<convVars, srvMsgs, nextMsgId, notSend>>

\* The POST resolved with the message the server stored: the conversation's
\* latest_message is set to it.
SendOk(call) ==
    /\ call \in sendCalls
    /\ LET newMessage == ServerMessage(nextMsgId, Me, "sent") IN
        /\ srvMsgs' = [srvMsgs EXCEPT ![call.conv] = <<newMessage>> \o @]
        /\ nextMsgId' = nextMsgId + 1
        /\ SetConversations(SetLatestMessage(conversations, call.conv, newMessage))
    /\ sendCalls' = sendCalls \ {call}
    /\ UNCHANGED <<postLog, sendLog, notSend>>

\* The POST rejected: sendMessage rethrows.
SendFail(call) ==
    /\ call \in sendCalls
    /\ sendCalls' = sendCalls \ {call}
    /\ UNCHANGED <<postLog, sendLog, convVars, srvMsgs, nextMsgId, notSend>>

NextSend ==
    \/ \E c \in ConvIds, content \in Contents : sendMessage(c, content)
    \/ \E call \in sendCalls : SendOk(call)
    \/ \E call \in sendCalls : SendFail(call)

\* ----------------------------------------------------- selectConversation
\* if (!messages[id] || messages[id].length === 0) await loadMessages(id)
NeedsLoad_Always(cachedMsgs) == TRUE
NeedsLoad(cachedMsgs) == ~cachedMsgs

\* The stage of selectConversation that follows the participants: the
\* subscriptions when the client is connected, else markAsRead.
AfterParticipants == IF isConnected THEN "subMessages" ELSE "read"

\* The selectConversation calls for c that have not completed.
Running(c) == { call \in selCalls : call.conv = c }

\* The GETs that the timers have issued or will issue.
TimerFetches ==
    BagCardinality(bgTimers) + BagCardinality(reloadTimers) + BagCardinality(msgCalls)

\* selectConversation(c) up to its first await, as the callback of a render
\* in which messages[c] was non-empty (cachedMsgs), participants[c] was
\* loaded (cachedParts) and handleNewMessage saw the active conversation
\* handler.  The GET of the messages is answered with the server's list as
\* it is when the request is made.
SelectCall(c, cachedMsgs, cachedParts, handler) ==
    LET n == selectCount[c] + 1
        again == selectCount[c] > 0 /\ Running(c) = {}
        stage == IF NeedsLoad(cachedMsgs) THEN "messages"
                 ELSE IF ~cachedParts THEN "participants"
                 ELSE AfterParticipants
    IN  /\ activeConversation' = c
        /\ selectCount' = [selectCount EXCEPT ![c] = n]
        /\ selCalls' = selCalls \cup
               {[conv |-> c, n |-> n, cachedMsgs |-> cachedMsgs,
                 cachedParts |-> cachedParts, again |-> again, handler |-> handler,
                 pc |-> stage,
                 resp |-> IF stage = "messages" THEN srvMsgs[c] ELSE <<>>]}
        /\ fetches' = IF stage = "messages"
                      THEN fetches \cup {[conv |-> c, n |-> n, cause |-> "select",
                                          cached |-> cachedMsgs, again |-> again]}
                      ELSE fetches
        /\ IF activeConversation # c
           THEN MqttEffect(user)
           ELSE UNCHANGED <<listening, subscriptions, messageHandlers>>

\* The variables the steps of selectConversation never write.
notSelectCore == <<pageVars, typingVars, sessionVars, isConnected, client, connStatus,
                   connectCalls, connectCount, uploadVars, postLog, convVars, isLoading,
                   refreshTimers, loadCalls, presenceCalls, sendVars, createCalls,
                   reloadTimers, msgCalls, delivered, serverVars>>
notSelect == <<subVars, notSelectCore>>

\* The conversation row is clicked in the sidebar.
selectConversation(c) ==
    /\ user # NoUser
    /\ \E i \in 1..Len(conversations) : conversations[i].id = c
    /\ selectCount[c] < MaxSelects
    /\ SelectCall(c, Len(messages[c]) > 0, c \in participants, handlerActive)
    /\ UNCHANGED <<messages, handlerActive, participants, error, presenceData,
                   lastApplied, bgTimers, notSelect>>

\* The call moves to its next stage, or ends.
Advance(call, stage) ==
    selCalls' = (selCalls \ {call}) \cup {[call EXCEPT !.pc = stage, !.resp = <<>>]}

\* loadMessages resolved: the conversation's list is replaced.
SelMessagesOk(call) ==
    /\ call \in selCalls
    /\ call.pc = "messages"
    /\ SetMessages([messages EXCEPT ![call.conv] = call.resp])
    /\ Advance(call, IF ~call.cachedParts THEN "participants" ELSE AfterParticipants)
    /\ UNCHANGED <<activeConversation, selectCount, fetches, participants, error,
                   presenceData, lastApplied, bgTimers, subscriptions, messageHandlers,
                   listening, notSelect>>

\* loadMessages or loadParticipants rejected: setError(error.message).
SelRequestFail(call, msg) ==
    /\ call \in selCalls
    /\ call.pc \in {"messages", "participants"}
    /\ error' = msg
    /\ selCalls' = selCalls \ {call}
    /\ UNCHANGED <<activeConversation, selectCount, fetches, participants, messages,
                   handlerActive, presenceData, lastApplied, bgTimers, subscriptions,
                   messageHandlers, listening, notSelect>>

\* getParticipants resolved: the bulk presence request for them follows.
SelParticipantsOk(call) ==
    /\ call \in selCalls
    /\ call.pc = "participants"
    /\ participants' = participants \cup {call.conv}
    /\ handlerActive' = activeConversation
    /\ Advance(call, "presence")
    /\ UNCHANGED <<activeConversation, selectCount, fetches, messages, error,
                   presenceData, lastApplied, bgTimers, subscriptions, messageHandlers,
                   listening, notSelect>>

\* The bulk presence request of loadParticipants resolved.
SelPresenceReply(call, presenceResponse) ==
    /\ call \in selCalls
    /\ call.pc = "presence"
    /\ MergePresence(ConvParticipants(call.conv), presenceResponse)
    /\ Advance(call, AfterParticipants)
    /\ UNCHANGED <<activeConversation, selectCount, fetches, participants, messages,
                   handlerActive, error, bgTimers, subscriptions, messageHandlers,
                   listening, notSelect>>

\* The broker acknowledges a subscribe call on this.client.
Acknowledging == client # NoClient /\ connStatus[client] = "open"

\* subscribeToConversation resolved (the broker acknowledged): the topic and
\* the call's handleNewMessage are registered.  subscribeToTyping follows:
\* with the client connected its acknowledgement is awaited; otherwise the
\* call is deferred to the next connect event, subscribe returns undefined
\* and the call goes on to markAsRead.
SelSubscribedMessages(call) ==
    LET typing == [topic |-> [kind |-> "typing", conv |-> call.conv],
                   handler |-> [fn |-> "handleTypingIndicator"]]
    IN  /\ call \in selCalls
        /\ call.pc = "subMessages"
        /\ Acknowledging
        /\ subscriptions' = subscriptions \cup
               {[kind |-> "messages", conv |-> call.conv]}
        /\ messageHandlers' = [messageHandlers EXCEPT
               ![[kind |-> "messages", conv |-> call.conv]] =
                   [fn |-> "handleNewMessage", activeConversation |-> call.handler]]
        /\ IF isConnected
           THEN /\ Advance(call, "subTyping")
                /\ UNCHANGED <<connectionCallbacks, deferred>>
           ELSE /\ Advance(call, "read")
                /\ connectionCallbacks' = Defer(connectionCallbacks, typing)
                /\ deferred' = deferred \cup {typing}
        /\ UNCHANGED <<activeConversation, selectCount, fetches, participants,
                       messages, handlerActive, error, presenceData, lastApplied,
                       bgTimers, listening, connectLog, notSelectCore>>

\* subscribeToTyping resolved.
SelSubscribedTyping(call) ==
    /\ call \in selCalls
    /\ call.pc = "subTyping"
    /\ Acknowledging
    /\ subscriptions' = subscriptions \cup {[kind |-> "typing", conv |-> call.conv]}
    /\ messageHandlers' = [messageHandlers EXCEPT
           ![[kind |-> "typing", conv |-> call.conv]] =
               [fn |-> "handleTypingIndicator"]]
    /\ Advance(call, "read")
    /\ UNCHANGED <<activeConversation, selectCount, fetches, participants, messages,
                   handlerActive, error, presenceData, lastApplied, bgTimers, listening,
                   notSelect>>

\* markAsRead settled: the call ends; when it resolved and the callback's
\* messages[c] was non-empty, the background re-fetch is scheduled (500 ms).
SelReadSettled(call, ok) ==
    /\ call \in selCalls
    /\ call.pc = "read"
    /\ selCalls' = selCalls \ {call}
    /\ ok /\ call.cachedMsgs => TimerFetches < MaxInFlight
    /\ bgTimers' = IF ok /\ call.cachedMsgs
                   THEN bgTimers (+) SetToBag({[conv |-> call.conv, n |-> call.n,
                                                cached |-> call.cachedMsgs,
                                                again |-> call.again]})
                   ELSE bgTimers
    /\ UNCHANGED <<activeConversation, selectCount, fetches, participants, messages,
                   handlerActive, error, presenceData, lastApplied, subscriptions,
                   messageHandlers, listening, notSelect>>

NextSelect ==
    \/ \E c \in ConvIds : selectConversation(c)
    \/ \E call \in selCalls : SelMessagesOk(call)
    \/ \E call \in selCalls : SelRequestFail(call, "Network error: Unable to reach server")
    \/ \E call \in selCalls : SelParticipantsOk(call)
    \/ \E call \in selCalls :
           \E presenceResponse \in BulkResponses(ConvParticipants(call.conv)) :
               SelPresenceReply(call, presenceResponse)
    \/ \E call \in selCalls : SelSubscribedMessages(call)
    \/ \E call \in selCalls : SelSubscribedTyping(call)
    \/ \E call \in selCalls, ok \in BOOLEAN : SelReadSettled(call, ok)

\* ------------------------------------------- realtime messages, re-fetches
\* The variables these steps never write.
notMessages == <<pageVars, typingVars, subVars, sessionVars, mqttVars, uploadVars, postLog, loadVars, presenceVars,
                 sendVars, activeConversation, participants, createCalls, selCalls,
                 selectCount, srvConvs>>
\* Another participant of c posts a message: the server stores it.
PeerMessage(c, sender) ==
    /\ nextMsgId <= MaxMsgs
    /\ sender \in ConvParticipants(c) \ {Me}
    /\ \E i \in 1..Len(srvConvs) : srvConvs[i] = c
    /\ srvMsgs' = [srvMsgs EXCEPT ![c] = <<ServerMessage(nextMsgId, sender, "sent")>> \o @]
    /\ nextMsgId' = nextMsgId + 1
    /\ UNCHANGED <<convVars, messages, handlerActive, fetches, bgTimers, reloadTimers,
                   msgCalls, delivered, notMessages>>

\* const messageExists = existingMessages.some(msg => msg.id === messageData.id)
\* messageExists ? prev : [messageData, ...existingMessages]
Ingest(existingMessages, messageData) ==
    IF \E i \in 1..Len(existingMessages) : existingMessages[i].id = messageData.id
    THEN existingMessages
    ELSE <<messageData>> \o existingMessages

\* The broker delivers a message of chat/<c>/messages (any message of the
\* conversation, any number of times) and MQTTClient.handleMessage passes it
\* to the handleNewMessage registered for the topic: the message is added
\* unless its id is in the list, the conversation's latest_message is set,
\* and the reload is scheduled (1000 ms) when the handler's activeConversation
\* is c and the sender is not the user.
handleNewMessage(c, messageData) ==
    LET topic == [kind |-> "messages", conv |-> c]
        handler == messageHandlers[topic]
        reload == handler.activeConversation = c /\ messageData.sender # user
    IN  /\ isConnected
        /\ topic \in subscriptions
        /\ handler.fn = "handleNewMessage"
        /\ \E i \in 1..Len(srvMsgs[c]) : srvMsgs[c][i] = messageData
        /\ reload => TimerFetches < MaxInFlight
        /\ IF Ingest(messages[c], messageData) = messages[c]
           THEN UNCHANGED <<messages, handlerActive>>
           ELSE SetMessages([messages EXCEPT ![c] = Ingest(@, messageData)])
        /\ SetConversations(SetLatestMessage(conversations, c, messageData))
        /\ reloadTimers' = IF reload THEN reloadTimers (+) SetToBag({c})
                           ELSE reloadTimers
        /\ delivered' = [delivered EXCEPT ![c] = @ \cup {messageData.id}]
        /\ UNCHANGED <<fetches, bgTimers, msgCalls, serverVars, notMessages>>

\* The reload timer of handleNewMessage fires: loadMessages(c) issues the GET,
\* which the server answers with its list as it is now.
ReloadTimerFire(c) ==
    /\ BagIn(c, reloadTimers)
    /\ reloadTimers' = reloadTimers (-) SetToBag({c})
    /\ msgCalls' = msgCalls (+)
           SetToBag({[conv |-> c, cause |-> "reload", offset |-> 0,
                      resp |-> srvMsgs[c]]})
    /\ fetches' = fetches \cup {[conv |-> c, n |-> 0, cause |-> "reload",
                                 cached |-> FALSE, again |-> FALSE]}
    /\ UNCHANGED <<convVars, messages, handlerActive, bgTimers, delivered, serverVars,
                   notMessages>>

\* The background re-fetch timer of selectConversation fires: getMessages(c, 50, 0)
BgTimerFire(timer) ==
    /\ BagIn(timer, bgTimers)
    /\ bgTimers' = bgTimers (-) SetToBag({timer})
    /\ msgCalls' = msgCalls (+)
           SetToBag({[conv |-> timer.conv, cause |-> "background", offset |-> 0,
                      resp |-> srvMsgs[timer.conv]]})
    /\ fetches' = fetches \cup {[conv |-> timer.conv, n |-> timer.n,
                                 cause |-> "background", cached |-> timer.cached,
                                 again |-> timer.again]}
    /\ UNCHANGED <<convVars, messages, handlerActive, reloadTimers, delivered,
                   serverVars, notMessages>>

\* getMessages(conversationId, limit, offset) at the server: the messages
\* of the conversation, newest first, from position offset.
MessagePage(list, limit, offset) ==
    IF offset >= Len(list) THEN <<>>
    ELSE SubSeq(list, offset + 1, IF offset + limit < Len(list) THEN offset + limit
                                  ELSE Len(list))

\* offset === 0 ? messagesData : [...(prev[conversationId] || []), ...messagesData]
LoadedMessages(existingMessages, messagesData, offset) ==
    IF offset = 0 THEN messagesData ELSE existingMessages \o messagesData

\* loadMessages(c, limit, offset) with offset > 0, as a consumer of the
\* context calls it for an older page: the GET is issued and the server
\* answers with the page of its list as it is now.
loadMessages(c, limit, offset) ==
    /\ user # NoUser
    /\ offset > 0
    /\ messages[c] # <<>>
    /\ Len(messages[c]) <= MaxMsgs
    /\ BagCardinality(msgCalls) < MaxInFlight
    /\ msgCalls' = msgCalls (+)
           SetToBag({[conv |-> c, cause |-> "page", offset |-> offset,
                      resp |-> MessagePage(srvMsgs[c], limit, offset)]})
    /\ fetches' = fetches \cup {[conv |-> c, n |-> 0, cause |-> "page",
                                 cached |-> FALSE, again |-> FALSE]}
    /\ UNCHANGED <<convVars, messages, handlerActive, bgTimers, reloadTimers, delivered,
                   serverVars, notMessages>>

\* A GET of the messages resolved: with offset 0 the conversation's list is
\* replaced by the response, with offset > 0 the response is appended to it.
MsgReplyOk(call) ==
    /\ BagIn(call, msgCalls)
    /\ msgCalls' = msgCalls (-) SetToBag({call})
    /\ SetMessages([messages EXCEPT
           ![call.conv] = LoadedMessages(@, call.resp, call.offset)])
    /\ UNCHANGED <<convVars, fetches, bgTimers, reloadTimers, delivered, serverVars,
                   notMessages>>

\* The GET of a timer rejected: nothing is changed.
MsgReplyFail(call) ==
    /\ BagIn(call, msgCalls)
    /\ msgCalls' = msgCalls (-) SetToBag({call})
    /\ UNCHANGED <<convVars, messages, handlerActive, fetches, bgTimers, reloadTimers,
                   delivered, serverVars, notMessages>>

NextRealtime ==
    \/ \E c \in ConvIds, sender \in Users : PeerMessage(c, sender)
    \/ \E c \in ConvIds :
           \E i \in 1..Len(srvMsgs[c]) : handleNewMessage(c, srvMsgs[c][i])
    \/ \E c \in BagToSet(reloadTimers) : ReloadTimerFire(c)
    \/ \E timer \in BagToSet(bgTimers) : BgTimerFire(timer)
    \/ \E call \in BagToSet(msgCalls) : MsgReplyOk(call)
    \/ \E call \in BagToSet(msgCalls) : MsgReplyFail(call)

\* The messages of the conversations: a restored session with its
\* connection, the loaded list, selectConversation, and the realtime messages
\* with the re-fetches the timers make.
NextMessages ==
    \/ initializeAuth
    \/ \E call \in connectCalls : CredentialsOk(call)
    \/ \E k \in ConnIds : OnConnect(k)
    \/ EffectTimerFire
    \/ \E call \in BagToSet(loadCalls) : LoadChatOk(call, {})
    \/ NextSelect
    \/ NextRealtime

SpecMessages == Init /\ [][NextMessages]_vars

\* The messages with the older pages a consumer loads: loadMessages with an
\* offset, beside the realtime ingestion and the timers' re-fetches.
PageLimit == 50
MaxOffset == 1

NextPaging ==
    \/ initializeAuth
    \/ \E call \in connectCalls : CredentialsOk(call)
    \/ \E k \in ConnIds : OnConnect(k)
    \/ EffectTimerFire
    \/ \E call \in BagToSet(loadCalls) : LoadChatOk(call, {})
    \/ \E c \in ConvIds : selCalls = {} /\ selectConversation(c)
    \/ \E call \in selCalls : SelMessagesOk(call)
    \/ \E call \in selCalls : SelParticipantsOk(call)
    \/ \E call \in selCalls :
           SelPresenceReply(call, [u \in ConvParticipants(call.conv) |-> "offline"])
    \/ \E call \in selCalls : SelSubscribedMessages(call)
    \/ \E call \in selCalls : SelSubscribedTyping(call)
    \/ \E call \in selCalls : SelReadSettled(call, TRUE)
    \/ NextRealtime
    \/ \E offset \in 1..MaxOffset :
           /\ activeConversation # NoConv
           /\ selCalls = {}
           /\ loadMessages(activeConversation, PageLimit, offset)

SpecPaging == Init /\ [][NextPaging]_vars

\* selectConversation on the loaded list, with the messages the other
\* participants post and the background re-fetch.
NextSelection ==
    \/ initializeAuth
    \/ \E call \in connectCalls : CredentialsOk(call)
    \/ \E k \in ConnIds : OnConnect(k)
    \/ EffectTimerFire
    \/ \E call \in BagToSet(loadCalls) : LoadChatOk(call, {})
    \/ \E c \in ConvIds : selectConversation(c)
    \/ \E call \in selCalls : SelMessagesOk(call)
    \/ \E call \in selCalls : SelRequestFail(call, "Network error: Unable to reach server")
    \/ \E call \in selCalls : SelParticipantsOk(call)
    \/ \E call \in selCalls :
           SelPresenceReply(call, [u \in ConvParticipants(call.conv) |-> "offline"])
    \/ \E call \in selCalls : SelSubscribedMessages(call)
    \/ \E call \in selCalls : SelSubscribedTyping(call)
    \/ \E call \in selCalls, ok \in BOOLEAN : SelReadSettled(call, ok)
    \/ \E c \in ConvIds, sender \in Users : PeerMessage(c, sender)
    \/ \E timer \in BagToSet(bgTimers) : BgTimerFire(timer)
    \/ \E call \in BagToSet(msgCalls) : MsgReplyOk(call)

SpecSelect == Init /\ [][NextSelection]_vars

\* ------------------------------------------------------------- routing
\* topicMatches(pattern, topic): the parts are equal, or the pattern's is +
topicMatches(pattern, topic) ==
    \/ pattern = topic
    \/ pattern.kind = "allPresence" /\ topic.kind = "presence"

\* The default handler handleMessage chooses by the topic's text:
\* /messages, /typing, /status
DefaultHandler(topic) ==
    IF topic.kind = "messages" THEN "defaultMessageHandler"
    ELSE IF topic.kind = "typing" THEN "defaultTypingHandler"
    ELSE "defaultPresenceHandler"

\* MQTTClient.handleMessage(topic, message): the handlers it calls, by tier.
\* The handler of the exact topic is called and the function returns;
\* without one, the handlers whose pattern matches are called, and then the
\* default handler of the topic's category.
Routing(handlers, topic) ==
    IF handlers[topic] # NoHandler
    THEN [exact |-> {handlers[topic]}, wildcard |-> {}, default |-> {}]
    ELSE [exact |-> {},
          wildcard |-> {handlers[pattern] :
                           pattern \in {q \in Topics : /\ handlers[q] # NoHandler
                                                       /\ topicMatches(q, topic)}},
          default |-> {DefaultHandler(topic)}]

\* The tiers that handleMessage calls a handler of.
Tiers(handlers, topic) ==
    LET r == Routing(handlers, topic)
    IN  (IF r.exact # {} THEN {"exact"} ELSE {})
            \cup (IF r.wildcard # {} THEN {"wildcard"} ELSE {})
            \cup (IF r.default # {} THEN {"default"} ELSE {})

\* ------------------------------------------------- deferred subscriptions
\* The subscriptions of a restored session whose connection has errors, is
\* lost and is reconnected by mqtt.js: selectConversation subscribes the
\* conversation's topics, the calls made one after the other.
NextSubscribe ==
    \/ initializeAuth
    \/ \E call \in connectCalls : CredentialsOk(call)
    \/ \E k \in ConnIds : OnConnect(k)
    \/ \E k \in ConnIds : OnError(k)
    \/ \E k \in ConnIds : OnClose(k)
    \/ EffectTimerFire
    \/ \E call \in BagToSet(loadCalls) : LoadChatOk(call, {})
    \/ \E c \in ConvIds : selCalls = {} /\ selectConversation(c)
    \/ \E call \in selCalls : SelMessagesOk(call)
    \/ \E call \in selCalls : SelParticipantsOk(call)
    \/ \E call \in selCalls :
           SelPresenceReply(call, [u \in ConvParticipants(call.conv) |-> "offline"])
    \/ \E call \in selCalls : SelSubscribedMessages(call)
    \/ \E call \in selCalls : SelSubscribedTyping(call)
    \/ \E call \in selCalls, ok \in BOOLEAN : SelReadSettled(call, ok)

SpecSubscribe == Init /\ [][NextSubscribe]_vars

\* ------------------------------------------------------ typing indicators
\* The variables the typing steps never write.
notTyping == <<pageVars, subVars, sessionVars, mqttVars, uploadVars, postLog, convVars, messages,
               handlerActive, loadVars, presenceVars, sendVars, selVars, msgVars,
               serverVars>>

\* The setTimeout after the state update is outside any condition: every
\* typing event, start or stop, schedules the removal.
ExpiryScheduled_OnStop(isTyping) == ~isTyping
ExpiryScheduled(isTyping) == TRUE

\* The broker delivers a typing event of user u on chat/<c>/typing and
\* MQTTClient.handleMessage passes it to the handleTypingIndicator registered
\* for the topic: the user's entry is set or removed, and the removal of the
\* entry is scheduled 5 s from now.
handleTypingIndicator(c, u, isTyping) ==
    /\ isConnected
    /\ [kind |-> "typing", conv |-> c] \in subscriptions
    /\ messageHandlers[[kind |-> "typing", conv |-> c]].fn = "handleTypingIndicator"
    /\ now + typingExpiry <= MaxTime
    /\ BagCardinality(typingTimers) < MaxTimers
    /\ typingUsers' = [typingUsers EXCEPT ![c] =
                          IF isTyping THEN @ \cup {u} ELSE @ \ {u}]
    /\ typingTimers' = IF ExpiryScheduled(isTyping)
                       THEN typingTimers (+)
                                SetToBag({[conv |-> c, user |-> u,
                                           due |-> now + typingExpiry]})
                       ELSE typingTimers
    /\ lastTyping' = [lastTyping EXCEPT
                          ![c][u] = [at |-> now, is_typing |-> isTyping]]
    /\ UNCHANGED <<now, notTyping>>

\* getTypingUsers(c): the entries of the conversation's typing state whose
\* key is not the user's id.
getTypingUsers_All(c) == typingUsers[c]
getTypingUsers(c) == { userId \in typingUsers[c] : userId # user }

\* An expiry timer fires: the user's entry is removed.
TypingTimerFire(timer) ==
    /\ BagIn(timer, typingTimers)
    /\ timer.due = now
    /\ typingTimers' = typingTimers (-) SetToBag({timer})
    /\ typingUsers' = [typingUsers EXCEPT ![timer.conv] = @ \ {timer.user}]
    /\ UNCHANGED <<now, lastTyping, notTyping>>

\* A second passes; the timers that are due have fired.
Tick ==
    /\ now < MaxTime
    /\ \A timer \in BagToSet(typingTimers) : timer.due > now
    /\ now' = now + 1
    /\ UNCHANGED <<typingUsers, typingTimers, lastTyping, notTyping>>

NextTypingTimers ==
    \/ \E timer \in BagToSet(typingTimers) : TypingTimerFire(timer)
    \/ Tick

\* Typing events of a conversation's participants on the topic that a
\* selectConversation call subscribed, the calls made one after the other.
NextTyping ==
    \/ initializeAuth
    \/ \E call \in connectCalls : CredentialsOk(call)
    \/ \E k \in ConnIds : OnConnect(k)
    \/ EffectTimerFire
    \/ \E call \in BagToSet(loadCalls) : LoadChatOk(call, {})
    \/ \E c \in ConvIds : selCalls = {} /\ selectConversation(c)
    \/ \E call \in selCalls : SelMessagesOk(call)
    \/ \E call \in selCalls : SelParticipantsOk(call)
    \/ \E call \in selCalls :
           SelPresenceReply(call, [u \in ConvParticipants(call.conv) |-> "offline"])
    \/ \E call \in selCalls : SelSubscribedMessages(call)
    \/ \E call \in selCalls : SelSubscribedTyping(call)
    \/ \E c \in ConvIds : \E u \in ConvParticipants(c), isTyping \in BOOLEAN :
           handleTypingIndicator(c, u, isTyping)
    \/ NextTypingTimers

SpecTyping == Init /\ [][NextTyping]_vars

\* The broker's messages of every category, routed by handleMessage to the
\* store's handlers.
NextRoute ==
    \/ initializeAuth
    \/ \E call \in connectCalls : CredentialsOk(call)
    \/ \E k \in ConnIds : OnConnect(k)
    \/ EffectTimerFire
    \/ \E call \in BagToSet(loadCalls) : LoadChatOk(call, {})
    \/ \E c \in ConvIds : selCalls = {} /\ selectConversation(c)
    \/ \E call \in selCalls : SelMessagesOk(call)
    \/ \E call \in selCalls : SelParticipantsOk(call)
    \/ \E call \in selCalls :
           SelPresenceReply(call, [u \in ConvParticipants(call.conv) |-> "offline"])
    \/ \E call \in selCalls : SelSubscribedMessages(call)
    \/ \E call \in selCalls : SelSubscribedTyping(call)
    \/ \E call \in selCalls : SelReadSettled(call, FALSE)
    \/ \E u \in Users : handlePresenceUpdate(u, "online")
    \/ \E c \in ConvIds, sender \in Users : PeerMessage(c, sender)
    \/ \E c \in ConvIds :
           \E i \in 1..Len(srvMsgs[c]) : handleNewMessage(c, srvMsgs[c][i])
    \/ \E c \in ConvIds : \E u \in ConvParticipants(c) :
           handleTypingIndicator(c, u, TRUE)

SpecRoute == Init /\ [][NextRoute]_vars

\* ------------------------------------------------------ createConversation
\* The variables the steps of createConversation never write.
notCreate == <<pageVars, typingVars, subVars, sessionVars, isConnected, client, connStatus, connectCalls,
               connectCount, uploadVars, postLog, messages, handlerActive, loadVars,
               presenceVars, sendVars, participants, msgVars, srvMsgs, nextMsgId>>

\* createConversation('DM', [participant]) up to its await.  The server
\* will give the conversation the identifier c.
createConversation(c) ==
    /\ user # NoUser
    /\ \A i \in 1..Len(srvConvs) : srvConvs[i] # c
    /\ \A call \in createCalls : call.conv # c
    /\ createCalls' = createCalls \cup
           {[conv |-> c, cachedMsgs |-> Len(messages[c]) > 0,
             cachedParts |-> c \in participants, handler |-> handlerActive]}
    /\ UNCHANGED <<convVars, activeConversation, selCalls, selectCount, fetches,
                   subscriptions, messageHandlers, listening, srvConvs, notCreate>>

\* The POST resolved with the new conversation: it is put at the head of
\* the list and selected, by the selectConversation the call closed over.
CreateOk(call) ==
    /\ call \in createCalls
    /\ createCalls' = createCalls \ {call}
    /\ srvConvs' = <<call.conv>> \o srvConvs
    /\ SetConversations(<<ConvRaw(call.conv)>> \o conversations)
    /\ SelectCall(call.conv, call.cachedMsgs, call.cachedParts, call.handler)
    /\ UNCHANGED notCreate

\* The POST rejected: createConversation rethrows.
CreateFail(call) ==
    /\ call \in createCalls
    /\ createCalls' = createCalls \ {call}
    /\ UNCHANGED <<convVars, activeConversation, selCalls, selectCount, fetches,
                   subscriptions, messageHandlers, listening, srvConvs, notCreate>>

NextCreate ==
    \/ \E c \in ConvIds : createConversation(c)
    \/ \E call \in createCalls : CreateOk(call)
    \/ \E call \in createCalls : CreateFail(call)

\* Two accounts that sign in and out on one page, with the conversation list.
NextAccounts ==
    \/ initializeAuth
    \/ user = NoUser /\ login
    \/ \E u \in Accounts : LoginOk(u)
    \/ LoginStatusSettled(FALSE)
    \/ logout
    \/ \E ok \in BOOLEAN : LogoutPublished(ok)
    \/ \E call \in connectCalls : CredentialsOk(call)
    \/ \E k \in ConnIds : OnConnect(k)
    \/ EffectTimerFire
    \/ \E closureLen \in BagToSet(refreshTimers) : RefreshTimerFire(closureLen)
    \/ \E call \in BagToSet(loadCalls) : LoadChatOk(call, {})

SpecAccounts == Init /\ [][NextAccounts]_vars

\* The conversation list under a restored session: loadConversations and
\* its timers, and createConversation.
NextLoadConv ==
    \/ initializeAuth
    \/ NextLoad
    \/ NextCreate

SpecLoad == Init /\ [][NextLoadConv]_vars

\* The conversation list and a reload of the page.
NextReload ==
    \/ NextLoadConv
    \/ PageReload

SpecReload == Init /\ [][NextReload]_vars

\* sendMessage on a list that was loaded and extended by createConversation.
NextSendConv ==
    \/ initializeAuth
    \/ EffectTimerFire
    \/ \E call \in BagToSet(loadCalls), failed \in SUBSET ConvIds :
           LoadChatOk(call, failed)
    \/ NextCreate
    \/ NextSend

SpecSend == Init /\ [][NextSendConv]_vars

\* The latest_message of a conversation under the user's sends and the
\* realtime messages of the conversation (the user's own and the peers',
\* delivered any number of times).
NextLatest ==
    \/ initializeAuth
    \/ \E call \in connectCalls : CredentialsOk(call)
    \/ \E k \in ConnIds : OnConnect(k)
    \/ EffectTimerFire
    \/ \E call \in BagToSet(loadCalls) : LoadChatOk(call, {})
    \/ \E c \in ConvIds : selCalls = {} /\ selectConversation(c)
    \/ \E call \in selCalls : SelMessagesOk(call)
    \/ \E call \in selCalls : SelParticipantsOk(call)
    \/ \E call \in selCalls :
           SelPresenceReply(call, [u \in ConvParticipants(call.conv) |-> "offline"])
    \/ \E call \in selCalls : SelSubscribedMessages(call)
    \/ \E call \in selCalls : SelSubscribedTyping(call)
    \/ \E call \in selCalls : SelReadSettled(call, FALSE)
    \/ \E c \in ConvIds : sendMessage(c, "hello")
    \/ \E call \in sendCalls : SendOk(call)
    \/ \E c \in ConvIds, sender \in Users : PeerMessage(c, sender)
    \/ \E c \in ConvIds :
           \E i \in 1..Len(srvMsgs[c]) : handleNewMessage(c, srvMsgs[c][i])

SpecLatest == Init /\ [][NextLatest]_vars

\* The presence map and its sources: the realtime status messages, and the
\* bulk snapshots of loadConversations, loadParticipants (through
\* selectConversation) and refreshPresenceData.
NextPresenceMap ==
    \/ initializeAuth
    \/ \E call \in connectCalls : CredentialsOk(call)
    \/ \E k \in ConnIds : OnConnect(k)
    \/ EffectTimerFire
    \/ \E call \in BagToSet(loadCalls) : LoadChatOk(call, {})
    \/ \E call \in BagToSet(loadCalls) :
           \E presenceResponse \in BulkResponses(call.ids) :
               LoadPresenceReply(call, presenceResponse)
    \/ \E c \in ConvIds : selectConversation(c)
    \/ \E call \in selCalls : SelMessagesOk(call)
    \/ \E call \in selCalls : SelParticipantsOk(call)
    \/ \E call \in selCalls :
           \E presenceResponse \in BulkResponses(ConvParticipants(call.conv)) :
               SelPresenceReply(call, presenceResponse)
    \/ NextPresence

SpecPresence == Init /\ [][NextPresenceMap]_vars

\* The variables the actions of sendMessageWithFiles never write.
notUploadOk == <<pageVars, typingVars, subVars, sessionVars, mqttVars, loadVars, presenceVars, sendVars, selVars,
                 msgVars, srvConvs>>
notUpload == <<notUploadOk, handlerActive>>

\* ------------------------------------------------ sendMessageWithFiles
\* The call starts: the first file's message row is posted.  (newMessage and
\* the loop's counters are locals of the file's iteration: they hold nothing
\* until the POST has resolved.)
sendMessageWithFiles(c, files) ==
    /\ upPc \in {"idle", "done", "failed"}
    /\ Len(postLog) + Len(files) <= MaxPosts
    /\ upPc' = "post"
    /\ upConv' = c
    /\ upFiles' = files
    /\ upIdx' = 1
    /\ lastMessage' = NoMsg
    /\ upError' = NoError
    /\ postLog' = Append(postLog, MessageData(c, "attachment", files[1], postLog))
    /\ upMsgId' = 0
    /\ retries' = 0
    /\ upAttempts' = 0
    /\ upWaited' = 0
    /\ UNCHANGED <<convVars, messages, serverVars, notUpload>>

\* chatApiEndpoints.sendMessage resolved: newMessage; the retry loop starts.
UploadPostOk ==
    /\ upPc = "post"
    /\ upMsgId' = nextMsgId
    /\ srvMsgs' = [srvMsgs EXCEPT ![upConv] =
                      <<ServerMessage(nextMsgId, Me, "uploading")>> \o @]
    /\ nextMsgId' = nextMsgId + 1
    /\ retries' = 0
    /\ upAttempts' = 0
    /\ upWaited' = 0
    /\ upPc' = "try"
    /\ UNCHANGED <<upConv, upFiles, upIdx, upError, lastMessage, postLog, convVars,
                   messages, srvConvs, notUpload>>

\* chatApiEndpoints.sendMessage rejected: the call rejects with that error.
UploadPostFail ==
    /\ upPc = "post"
    /\ upPc' = "failed"
    /\ upError' = [type |-> "post"]
    /\ UNCHANGED <<upConv, upFiles, upIdx, upMsgId, retries, upAttempts, upWaited,
                   lastMessage, postLog, convVars, messages, serverVars, notUpload>>

\* retries++ in the catch block
RetriesAfterForeignKey_NoIncrement(r) == r
RetriesAfterForeignKey(r) == r + 1

\* throw new Error(`Failed to upload ${name}: Message not found in database
\*                  after ${maxRetries} attempts`)
GiveUpError(name) == [type |-> "giveup", file |-> name, attempts |-> maxRetries]

\* The error an upload step rejected with, rethrown as it is.
RawError(msg) == [type |-> "upload", message |-> msg]

\* One pass of the while loop's try block (initiateUpload, the PUT to storage,
\* completeUpload) resolved: the message row is patched to 'ready'; the loop
\* breaks and the next file is posted, or the call returns.
UploadAttemptOk ==
    /\ upPc = "try"
    /\ upAttempts' = upAttempts + 1
    /\ LET updatedMessage == ServerMessage(upMsgId, Me, "ready") IN
        /\ SetMessages([messages EXCEPT ![upConv] =
                           PatchMessage(@, upMsgId, updatedMessage)])
        /\ lastMessage' = updatedMessage
        /\ IF upIdx < Len(upFiles)
           THEN /\ upIdx' = upIdx + 1
                /\ upPc' = "post"
                /\ postLog' = Append(postLog,
                       MessageData(upConv, "attachment", upFiles[upIdx + 1], postLog))
                /\ UNCHANGED convVars
           ELSE /\ upPc' = "done"
                /\ SetConversations(SetLatestMessage(conversations, upConv, updatedMessage))
                /\ UNCHANGED <<upIdx, postLog>>
    /\ UNCHANGED <<upConv, upFiles, upMsgId, retries, upWaited, upError, serverVars,
                   notUploadOk>>

\* One pass of the try block rejected with an error whose message is msg:
\* a foreign-key violation is retried after retryDelay while retries stay
\* below maxRetries; any other error, and the last foreign-key violation,
\* is rethrown (throw uploadError).
UploadAttemptFail(msg) ==
    /\ upPc = "try"
    /\ upAttempts' = upAttempts + 1
    /\ IF IsForeignKeyError(msg)
       THEN /\ retries' = RetriesAfterForeignKey(retries)
            /\ IF retries' < maxRetries
               THEN upPc' = "sleep" /\ UNCHANGED upError
               ELSE upPc' = "failed" /\ upError' = RawError(msg)
       ELSE /\ upPc' = "failed"
            /\ upError' = RawError(msg)
            /\ UNCHANGED retries
    /\ UNCHANGED <<upConv, upFiles, upIdx, upMsgId, upWaited, lastMessage, postLog,
                   convVars, messages, serverVars, notUpload>>

\* await new Promise(resolve => setTimeout(resolve, retryDelay)); continue:
\* the loop condition is evaluated again, and when it fails the statement
\* after the loop throws the give-up error.
UploadSleep ==
    /\ upPc = "sleep"
    /\ upWaited' = upWaited + retryDelay
    /\ IF retries < maxRetries
       THEN upPc' = "try" /\ UNCHANGED upError
       ELSE upPc' = "failed" /\ upError' = GiveUpError(upFiles[upIdx])
    /\ UNCHANGED <<upConv, upFiles, upIdx, upMsgId, retries, upAttempts,
                   lastMessage, postLog, convVars, messages, serverVars, notUpload>>

NextUpload ==
    \/ \E c \in ConvIds, files \in FileSeqs : sendMessageWithFiles(c, files)
    \/ UploadPostOk
    \/ UploadPostFail
    \/ UploadAttemptOk
    \/ \E msg \in ErrorMessages : UploadAttemptFail(msg)
    \/ UploadSleep

SpecUpload == Init /\ [][NextUpload]_vars

\* sendMessageWithFiles on the selected conversation, with the realtime
\* messages of the conversation: the broker delivers the rows the server
\* stored, the user's own included.
NextAttach ==
    \/ initializeAuth
    \/ \E call \in connectCalls : CredentialsOk(call)
    \/ \E k \in ConnIds : OnConnect(k)
    \/ EffectTimerFire
    \/ \E call \in BagToSet(loadCalls) : LoadChatOk(call, {})
    \/ \E c \in ConvIds : selCalls = {} /\ selectConversation(c)
    \/ \E call \in selCalls : SelMessagesOk(call)
    \/ \E call \in selCalls : SelParticipantsOk(call)
    \/ \E call \in selCalls :
           SelPresenceReply(call, [u \in ConvParticipants(call.conv) |-> "offline"])
    \/ \E call \in selCalls : SelSubscribedMessages(call)
    \/ \E call \in selCalls : SelSubscribedTyping(call)
    \/ \E call \in selCalls : SelReadSettled(call, FALSE)
    \/ \E files \in FileSeqs :
           /\ activeConversation # NoConv
           /\ selCalls = {}
           /\ Len(postLog) + Len(files) <= MaxAttachPosts
           /\ sendMessageWithFiles(activeConversation, files)
    \/ UploadPostOk
    \/ UploadAttemptOk
    \/ \E c \in ConvIds :
           \E i \in 1..Len(srvMsgs[c]) : handleNewMessage(c, srvMsgs[c][i])

SpecAttach == Init /\ [][NextAttach]_vars

\* The composer's selected files: handleSendMessage clears them when it
\* starts, and its catch block puts filesToSend back when the call rejected.
selectedFiles == IF upPc = "failed" THEN upFiles ELSE <<>>

\* Every entry of the selection is a file of its own (handleFileSelect gives
\* each an id).
DistinctFiles(files) == \A i, j \in 1..Len(files) : files[i] = files[j] => i = j

\* handleSendMessage with files in the composer, up to its await: nothing is
\* sent without an active conversation or while a send is running;
\* filesToSend is the composer's selection (files, chosen with
\* handleFileSelect, or the selection the rollback restored), which is
\* passed whole to sendMessageWithFiles.
handleSendMessage(files) ==
    LET filesToSend == IF selectedFiles # <<>> THEN selectedFiles ELSE files
    IN  /\ activeConversation # NoConv
        /\ selCalls = {}
        /\ sendMessageWithFiles(activeConversation, filesToSend)

\* The composer on the selected conversation: submissions with files, their
\* failures and the re-submissions after the rollback.
NextComposer ==
    \/ initializeAuth
    \/ EffectTimerFire
    \/ \E call \in BagToSet(loadCalls) : LoadChatOk(call, {})
    \/ \E c \in ConvIds : selCalls = {} /\ selectConversation(c)
    \/ \E call \in selCalls : SelMessagesOk(call)
    \/ \E call \in selCalls : SelParticipantsOk(call)
    \/ \E call \in selCalls :
           SelPresenceReply(call, [u \in ConvParticipants(call.conv) |-> "offline"])
    \/ \E call \in selCalls : SelReadSettled(call, FALSE)
    \/ \E files \in FileSeqs : DistinctFiles(files) /\ handleSendMessage(files)
    \/ UploadPostOk
    \/ UploadPostFail
    \/ UploadAttemptOk
    \/ UploadAttemptFail("Failed to upload to storage")

SpecComposer == Init /\ [][NextComposer]_vars

\* C5: for one file, the upload is attempted at most maxRetries (10) times,
\* consecutive attempts are separated by one wait of retryDelay (500 ms), and
\* once maxRetries attempts have failed with the foreign-key signature the
\* call has ended in failure.
C5_RetryBounded ==
    /\ upAttempts <= maxRetries
    /\ upPc = "try" => upWaited = retryDelay * upAttempts
    /\ upPc = "sleep" => upWaited = retryDelay * (upAttempts - 1)
    /\ retries >= maxRetries => (upPc = "failed" /\ upError # NoError)

\* C5 witness: a file whose ten attempts all failed with the signature.
C5_Witness ==
    /\ upPc = "failed"
    /\ retries = maxRetries
    /\ upAttempts = maxRetries
    /\ upWaited = retryDelay * (maxRetries - 1)

\* C6: when all maxRetries attempts for a file have failed with the
\* foreign-key signature, the call gives up with the descriptive failure
\* naming the file and the number of attempts.
C6_GiveUpIsDescriptive ==
    (upPc = "failed" /\ retries = maxRetries)
        => upError = GiveUpError(upFiles[upIdx])

\* C3: when loadConversations fails because the chat backend is unreachable,
\* the conversation list after the failure has been handled equals the list
\* held immediately before it was handled.
C3_FailurePreservesList ==
    [][(\E call \in BagToSet(loadCalls) : LoadChatFail(call))
           => conversations' = conversations]_vars

\* C4: whenever loadConversations fails because the chat backend is
\* unreachable, the error flag is set (non-null) once the call has completed,
\* whether or not a conversation list is held at that time.
C4_FailureSetsError ==
    [][(\E call \in BagToSet(loadCalls) : LoadChatFail(call))
           => error' # NullError]_vars

\* C7: each sendMessage(C, content) call issues exactly one POST for C, with
\* content_type text/plain, the given content and a dedupe_key of its own;
\* when the POST succeeds, the latest_message of C is the returned message
\* and the entry of every other conversation is unchanged.
C7_SendMessage ==
    /\ [](LET textPosts == SelectSeq(postLog,
                               LAMBDA m : m.content_type = "text/plain")
          IN  /\ Len(textPosts) = Len(sendLog)
              /\ \A i \in 1..Len(sendLog) :
                     /\ textPosts[i].conv = sendLog[i].conv
                     /\ textPosts[i].content = sendLog[i].content
                     /\ textPosts[i].dedupe_key[1] = "msg"
              /\ \A i, j \in 1..Len(textPosts) :
                     i # j => textPosts[i].dedupe_key # textPosts[j].dedupe_key)
    /\ [][\A call \in sendCalls : SendOk(call) =>
             /\ Len(conversations') = Len(conversations)
             /\ \A i \in 1..Len(conversations) :
                    conversations'[i] =
                        IF conversations[i].id = call.conv
                        THEN [conversations[i] EXCEPT
                                 !.latest_message = Head(srvMsgs'[call.conv])]
                        ELSE conversations[i]]_vars

\* C7 witness: two conversations are listed, a sendMessage call for one of
\* them has succeeded and its message is that conversation's latest_message,
\* and the other conversation has none.
C7_Witness ==
    /\ Len(conversations) = 2
    /\ sendLog # <<>>
    /\ sendCalls = {}
    /\ \E i, j \in 1..Len(conversations) :
           /\ i # j
           /\ srvMsgs[conversations[i].id] # <<>>
           /\ conversations[i].latest_message = Head(srvMsgs[conversations[i].id])
           /\ conversations[i].latest_message.sender = Me
           /\ conversations[j].latest_message = NoMsg

\* C9: the presence map holds one record per user, and for every user that
\* record is the payload of the most recently applied update that named the
\* user (a realtime status message, or a bulk snapshot of loadConversations,
\* loadParticipants or refreshPresenceData); an update that does not name a
\* user leaves the user's record unchanged.
C9_LastUpdateWins == \A u \in Users : presenceData[u] = lastApplied[u]

\* C1: whatever realtime message events have been delivered to
\* handleNewMessage for a conversation (any order, any repeats), the
\* conversation's list holds exactly one entry for each message identifier
\* delivered.
C1_OneEntryPerDelivered ==
    \A c \in ConvIds : \A id \in delivered[c] :
        Cardinality({ i \in 1..Len(messages[c]) : messages[c][i].id = id }) = 1

C8_TypingExpires ==
    \A c \in ConvIds : \A u \in typingUsers[c] :
        /\ lastTyping[c][u].at >= 0
        /\ now <= lastTyping[c][u].at + typingExpiry

\* C8 witness: an entry set by a typing=true event has been removed by its
\* timer 5 seconds later, no stop event having been received in between.
C8_Witness ==
    \E c \in ConvIds : \E u \in Users :
        /\ lastTyping[c][u].is_typing
        /\ now = lastTyping[c][u].at + typingExpiry
        /\ u \notin typingUsers[c]
        /\ typingTimers = EmptyBag

C13_NoResubscribe ==
    connectLog.reconnect =>
        connectLog.issued \cap (connectLog.before \cup connectLog.earlier) = {}

\* C13 amended: a connect event that follows a connection loss issues the
\* subscribe of the user's own presence topic and of the subscribe calls that
\* were deferred while the client was not connected, and of no other topic:
\* a topic subscribed by a call made while connected is not subscribed again.
C13_OnlyPresenceAndDeferred ==
    connectLog.reconnect =>
        \A t \in connectLog.issued :
            \/ t = [kind |-> "presence", user |-> tokenUser]
            \/ t \in connectLog.callbacks

\* C13 witness: a reconnect has happened with a conversation's messages topic
\* subscribed, and has not subscribed it again.
C13_Witness ==
    /\ connectLog.reconnect
    /\ \E c \in ConvIds :
           /\ [kind |-> "messages", conv |-> c] \in connectLog.before
           /\ [kind |-> "messages", conv |-> c] \notin connectLog.issued

\* C12: each inbound broker message is routed to one tier only: to the
\* handler of the exact topic, else to the handlers whose pattern matches,
\* and to the default handler of its category only when neither matched.
C12_OneTier ==
    [][\A t \in Topics \ {[kind |-> "allPresence"]} :
          (\/ /\ t.kind = "presence"
              /\ \E status \in PresenceStatuses : handlePresenceUpdate(t.user, status)
           \/ /\ t.kind = "messages"
              /\ \E i \in 1..Len(srvMsgs[t.conv]) :
                     handleNewMessage(t.conv, srvMsgs[t.conv][i])
           \/ /\ t.kind = "typing"
              /\ \E u \in Users, isTyping \in BOOLEAN :
                     handleTypingIndicator(t.conv, u, isTyping))
          => Cardinality(Tiers(messageHandlers, t)) = 1]_vars

\* C19: under the sends and the realtime messages of a conversation
\* (duplicates included), the conversation's latest_message is never replaced
\* by an older message: the identifier it points to never decreases.
C19_LatestNeverOlder ==
    [][\A i \in 1..Len(conversations), j \in 1..Len(conversations') :
          conversations[i].id = conversations'[j].id =>
              conversations'[j].latest_message.id >= conversations[i].latest_message.id]_vars

\* C20: when the connection of the connect() call made by the session
\* restore fails, a request setting the user's status through the presence
\* service has been made by the restore.
C20_RestoreFallsBack ==
    [][\A k \in ConnIds :
          (OnError(k) /\ \E call \in CallsOf(k) : call.by = "restore")
              => \E r \in requestLog' : r.by = "restore" /\ r.path = "/api/v1/presence/status"]_vars

\* C16: when the direct login failed and the password grant and userinfo
\* both resolved, login goes on with the user, and the token and the user
\* are stored.
C16_FallbackLogsIn ==
    [][LoginUserInfoOk(Me) => loginPc' = "status" /\ tokenUser' = Me /\ user' = Me]_vars

\* C17: a 401 response to a request, those of the admin console included,
\* leaves no token, user or organization stored and the page at /login.
C17_UnauthorizedLogsOut ==
    [][(\/ LoginDirectFail(Unauthorized)
        \/ LoginFail(Unauthorized)
        \/ \E method \in {"PUT", "DELETE"} : AdminReply(method, Unauthorized))
           => tokenUser' = NoUser /\ organization' = NoOrg /\ location' = "/login"]_vars

\* C18: every request that login or register made with a session stored,
\* the identity provider's endpoints excepted, carries the Authorization,
\* X-User-ID and X-Organization-ID headers.
C18_RequestsCarryIdentity ==
    \A r \in requestLog :
        (/\ r.by \in {"login", "register"}
         /\ r.path \in {"/api/v1/presence/status", "/api/v1/auth/mqtt-credentials"})
            => {"Authorization", "X-User-ID", "X-Organization-ID"} \subseteq r.headers


\* C15: while a user is signed in, the conversation list the store holds
\* and the snapshot stored under the user's key are of that user's session.
C15_ScopedPerUser ==
    user # NoUser =>
        /\ conversations # <<>> => listOwner = user
        /\ storage[user] # <<>> => snapshotOwner[user] = user

\* C14: when the session of a stored user is restored after a reload of the
\* page, the store holds the conversations that were persisted for that user
\* when the page was reloaded.
C14_RestoredAfterReload ==
    [][(initializeAuth /\ beforeReload.user # NoUser /\ beforeReload.user = tokenUser)
           => conversations' = beforeReload.conversations]_vars

\* C21: when a selectConversation call completes with the client connected,
\* the conversation's messages and typing topics are subscribed.
C21_SelectedIsSubscribed ==
    [][\A call \in selCalls, ok \in BOOLEAN :
          (SelReadSettled(call, ok) /\ isConnected /\ Acknowledging)
              => {[kind |-> "messages", conv |-> call.conv],
                  [kind |-> "typing", conv |-> call.conv]} \subseteq subscriptions']_vars

\* C22: when the response of selectConversation's background re-fetch is
\* applied, every message the conversation's list held before is still in it.
C22_RefetchKeepsMessages ==
    [][\A call \in BagToSet(msgCalls) :
          (MsgReplyOk(call) /\ call.cause = "background")
              => \A i \in 1..Len(messages[call.conv]) :
                     \E j \in 1..Len(messages'[call.conv]) :
                         messages'[call.conv][j].id = messages[call.conv][i].id]_vars

\* C23: when sendMessageWithFiles has resolved, the entry the store holds
\* for the message of the file sent last has status 'ready'.
C23_SentFileIsReady ==
    upPc = "done" =>
        \A i \in 1..Len(messages[upConv]) :
            messages[upConv][i].id = upMsgId => messages[upConv][i].status = "ready"

\* C24 (as stated): the typing state of a conversation has no entry for the
\* signed-in user.
C24_NoLocalEntry ==
    user # NoUser => \A c \in ConvIds : user \notin typingUsers[c]

\* C24 (amended): the typing users getTypingUsers returns for a conversation
\* never include the signed-in user.
C24_IndicatorsExcludeLocal ==
    user # NoUser => \A c \in ConvIds : user \notin getTypingUsers(c)

\* C24 witness: the echo of the user's own typing event has been handled and
\* its entry is in the typing state, with a peer's entry beside it.
C24_Witness ==
    \E c \in ConvIds :
        /\ user # NoUser
        /\ user \in typingUsers[c]
        /\ lastTyping[c][user].is_typing
        /\ getTypingUsers(c) # {}

\* C27: a user whose last typing event on a conversation was a start less
\* than 5 seconds ago has an entry in the conversation's typing state.
C27_RefreshedEntryStays ==
    \A c \in ConvIds : \A u \in Users :
        (lastTyping[c][u].is_typing /\ now < lastTyping[c][u].at + typingExpiry)
            => u \in typingUsers[c]

\* C25: the loading state is entered only without cached data: no step turns
\* isLoading on while the store holds a non-empty conversation list, the
\* background refresh that follows a cache restore included.
C25_LoadingOnlyWhenEmpty == [][(~isLoading /\ isLoading') => conversations = <<>>]_vars

\* C26: after logout() completes the broker connection is closed, whatever
\* the connection state was when logout started: the step that ends the
\* logout of a session whose connection had been established leaves no
\* connection connecting, open or reconnecting.  (stopHeartbeat() is the
\* statement before disconnect() in the same branch, so the heartbeat timer
\* is stopped exactly when the connection is ended.)
C26_LogoutClosesConnection == [][(user # NoUser /\ user' = NoUser /\ mqttConnected)
          => \A k \in ConnIds : connStatus'[k] \notin {"connecting", "open", "closed"}]_vars

\* C30: whenever a user is authenticated and the transport is connected, the
\* store has its wildcard presence subscription and its window listeners for
\* the realtime message, typing and presence events installed, also when the
\* connection is established only after the user has been set.
C30_ConnectedStoreListens ==
    (user # NoUser /\ isConnected)
        => (listening /\ [kind |-> "allPresence"] \in subscriptions)

\* C28: after any interleaving of realtime ingestion, loadMessages calls
\* (offset 0 and offset greater than 0) and background refreshes, no
\* conversation's message list holds two entries with the same message id.
C28_UniqueMessageIds ==
    \A c \in ConvIds : \A i, j \in 1..Len(messages[c]) :
        messages[c][i].id = messages[c][j].id => i = j

\* C29: when sendMessageWithFiles failed on the k-th of several files, the
\* re-submission after the composer's rollback does not send files 1..k-1
\* again: none of the files already delivered is among the files it sends.
C29_NoResendAfterRollback ==
    [][\A files \in FileSeqs :
           (upPc = "failed" /\ DistinctFiles(upFiles) /\ handleSendMessage(files))
               => \A i \in 1..(upIdx - 1) : \A j \in 1..Len(upFiles') :
                      upFiles'[j] # upFiles[i]]_vars

====
